---- MODULE Spec2Model ----
(***************************************************************************)
(* dc.js base mixin: the filter set manager of a chart, its render/redraw  *)
(* lifecycle and the chart group registry, as a state machine.             *)
(***************************************************************************)
EXTENDS Integers, Sequences, FiniteSets, TLC

(* ------------------------------------------------------------------ *)
(* Bounds                                                              *)
(* ------------------------------------------------------------------ *)

\* Longest filter list a call may leave behind.
MaxFilters == 2

\* Renderlets registered on one chart, and transitions of one chart that
\* are still running, at most.
MaxRenderlets == 2

MaxPending == 2

\* Records of an array that is ordered, at most.
MaxRecords == 3

\* Layers of the stack chart, at most.
MaxLayers == 2

\* Subscriptions one chart holds at most.
MaxSubscribers == 2

\* Number of charts the page constructs.
NumCharts == 2

ChartIds == 1..NumCharts

GroupNames == {"g1", "g2"}

(* ------------------------------------------------------------------ *)
(* JavaScript values used as filter values                             *)
(* ------------------------------------------------------------------ *)

\* A JavaScript value: a number, a string of digits, an array of small
\* numbers (a range [lo, hi]; obj is the array object's identity), or
\* undefined.  isF says the value exposes isFiltered, accepts is the set
\* of numbers isFiltered answers true for.
JsNumber(n) ==
    [t |-> "number", num |-> n, elems |-> <<>>, obj |-> 0, isF |-> FALSE, accepts |-> {}]

JsString(digits) ==
    [t |-> "string", num |-> 0, elems |-> digits, obj |-> 0, isF |-> FALSE, accepts |-> {}]

JsArray(es, o) ==
    [t |-> "array", num |-> 0, elems |-> es, obj |-> o, isF |-> FALSE, accepts |-> {}]

JsRangedFilter(es, o, acc) ==
    [t |-> "array", num |-> 0, elems |-> es, obj |-> o, isF |-> TRUE, accepts |-> acc]

JsUndefined ==
    [t |-> "undefined", num |-> 0, elems |-> <<>>, obj |-> 0, isF |-> FALSE, accepts |-> {}]

N1 == JsNumber(1)
N2 == JsNumber(2)
S1 == JsString(<<1>>)
ArrA == JsArray(<<1, 2>>, 1)
ArrB == JsArray(<<1, 2>>, 2)
Ranged == JsRangedFilter(<<1, 3>>, 3, {1, 2})
Undef == JsUndefined

\* Arguments the callers pass as filter values.
Values == {N1, N2, S1, ArrA, ArrB, Ranged, Undef}

\* The filter values of the data model: scalars, ranges, isFiltered objects.
FilterValues == Values \ {Undef}

\* Elements of the inner array of a bulk call.
BulkValues == {N1, N2, ArrB}

BulkInner ==
    {<<>>} \cup {<<a>> : a \in BulkValues} \cup {<<a, b>> : a \in BulkValues, b \in BulkValues}

\* Character code of a one-digit number ("0" is 48; "," is 44).
DigitCode(d) == 48 + d

RECURSIVE JoinCodes(_)
\* Array.prototype.toString of an array of one-digit numbers: "1,2".
JoinCodes(es) ==
    IF es = <<>> THEN <<>>
    ELSE IF Len(es) = 1 THEN <<DigitCode(es[1])>>
    ELSE <<DigitCode(es[1]), 44>> \o JoinCodes(Tail(es))

\* ToPrimitive(v, hint Number): arrays become their text.
IsStringPrim(v) == v.t \in {"string", "array"}

RECURSIVE DigitCodes(_)
\* The text of a string of digits.
DigitCodes(es) ==
    IF es = <<>> THEN <<>> ELSE <<DigitCode(Head(es))>> \o DigitCodes(Tail(es))

StrOf(v) == IF v.t = "array" THEN JoinCodes(v.elems) ELSE DigitCodes(v.elems)

\* ToNumber of the primitive: nan marks NaN.
NumOf(v) ==
    CASE v.t = "number" -> [nan |-> FALSE, n |-> v.num]
      [] v.t = "undefined" -> [nan |-> TRUE, n |-> 0]
      [] v.t = "string" ->
            IF Len(v.elems) = 0 THEN [nan |-> FALSE, n |-> 0]
            ELSE IF Len(v.elems) = 1 THEN [nan |-> FALSE, n |-> v.elems[1]]
            ELSE [nan |-> FALSE, n |-> 10 * v.elems[1] + v.elems[2]]
      [] v.t = "array" ->
            IF Len(v.elems) = 0 THEN [nan |-> FALSE, n |-> 0]
            ELSE IF Len(v.elems) = 1 THEN [nan |-> FALSE, n |-> v.elems[1]]
            ELSE [nan |-> TRUE, n |-> 0]

RECURSIVE LexLess(_, _)
\* Code-unit order of two texts.
LexLess(x, y) ==
    IF y = <<>> THEN FALSE
    ELSE IF x = <<>> THEN TRUE
    ELSE IF Head(x) < Head(y) THEN TRUE
    ELSE IF Head(x) > Head(y) THEN FALSE
    ELSE LexLess(Tail(x), Tail(y))

\* The abstract relational comparison a < b: "true", "false" or "undefined".
JsLt(a, b) ==
    IF IsStringPrim(a) /\ IsStringPrim(b)
    THEN IF LexLess(StrOf(a), StrOf(b)) THEN "true" ELSE "false"
    ELSE IF NumOf(a).nan \/ NumOf(b).nan THEN "undefined"
    ELSE IF NumOf(a).n < NumOf(b).n THEN "true" ELSE "false"

\* a <= b and a >= b of JavaScript.
JsLe(a, b) == JsLt(b, a) = "false"

JsGe(a, b) == JsLt(a, b) = "false"

\* a === b: primitives by value, objects by identity.
StrictEq(a, b) == a = b

\* filter.isFiltered && filter.isFiltered(d)
isFiltered(f, d) == f.isF /\ d.t = "number" /\ d.num \in f.accepts

(* ------------------------------------------------------------------ *)
(* Call arguments of filter(_)                                         *)
(* ------------------------------------------------------------------ *)

ValueArg(v) == [form |-> "value", v |-> v, inner |-> <<>>]

NullArg == [form |-> "null", v |-> Undef, inner |-> <<>>]

\* An outer array without isFiltered whose first element is an array.
BulkArg(inner) == [form |-> "bulk", v |-> Undef, inner |-> inner]

FilterArgs ==
    {ValueArg(v) : v \in Values} \cup {NullArg} \cup {BulkArg(ds) : ds \in BulkInner}

IsUndefinedArg(a) == a.form = "value" /\ a.v.t = "undefined"

\* var _transitionDuration = 750
DefaultTransitionDuration == 750

\* Filter handlers a caller installs: the default one, one that keeps only
\* the last filter and returns that new list, one that returns nothing.
Handlers == {"default", "single", "void"}

(* ------------------------------------------------------------------ *)
(* State                                                               *)
(* ------------------------------------------------------------------ *)

VARIABLES
    charts,      \* ids of the charts constructed so far
    filters,     \* _filters of each chart
    handler,     \* _filterHandler of each chart
    dimension,   \* whether _dimension is a filterable dimension
    dimFilter,   \* the filter list the chart's dimension currently applies
    controls,    \* the affordance hook called last: "none", "on", "off"
    lastCall,    \* the operation that ran last
    prev,        \* _filters of the called chart before lastCall
    fired,       \* arguments the 'filtered' listener got during lastCall
    observed,    \* what the 'filtered' listener could read at each of these calls
    handled,     \* lists handed to the filter handler during lastCall
    registry,    \* chart group registry: group name -> charts in registration order
    chartGroup,  \* _chartGroup of each chart
    group,       \* whether _group of each chart is set
    legend,      \* whether a legend is attached to each chart
    renderlets,  \* number of renderlets registered on each chart
    transitionDuration, \* _transitionDuration of each chart
    svg,         \* whether _svg of each chart is set
    pending,     \* post events waiting for the end of each chart's transition
    log,         \* lifecycle events of lastCall, in order
    anchor,      \* _anchor of each chart
    raised,      \* the exception that escaped lastCall, if any
    badRenderlets, \* positions in _renderlets of the callbacks that throw
    listeners,   \* the subscribers of each chart's dispatch, in subscription order
    called,      \* the subscribers invoked during lastCall, in order
    stack,       \* _stack of the stack chart: its layers, in stack-list order
    xScale,      \* the x scale bound to the stack chart, and elasticX
    evadeDomainFilter, \* _evadeDomainFilter of the stack chart
    dataResult,  \* what the last data() call of the stack chart returned
    groupValues, \* what the reduction of the crossfilter adds to every group value
    axisResult,  \* what the last yAxisMin() or yAxisMax() call returned
    titles,      \* _titles of the stack chart: the title function of a stack name
    groupName,   \* _groupName of the stack chart
    title,       \* _title of the stack chart: the chart-wide title function
    titleResult, \* what the last title(...) call returned
    hidableStacks, \* _hidableStacks of the stack chart
    ordering,    \* _ordering of the first chart: the accessor groups are ordered by
    orderSort,   \* _orderSort of the first chart: the accessor its sort was made for
    orderResult, \* the last _computeOrderedGroups call: argument and result
    root         \* _root of each chart: "undefined", "null" or "selection"

filterVars == <<filters, handler, dimension, dimFilter, controls, prev, fired, observed, handled>>

lifecycleVars == <<group, legend, renderlets, transitionDuration, svg, pending, log>>

registryVars == <<charts, registry, chartGroup>>

callbackVars == <<anchor, raised, badRenderlets, listeners, called>>

\* What the filter manager and the group registry never write.
\* State of the stack chart that stacking and pulling data leave alone.
auxVars == <<axisResult, title, titleResult, hidableStacks>>

\* State of the stack chart that chart.group(g, name) starts over.
groupVars == <<titles, groupName>>

stackVars == <<stack, xScale, evadeDomainFilter, dataResult, groupValues, auxVars, groupVars>>

orderVars == <<ordering, orderSort, orderResult>>

domVars == <<root>>

otherVars == <<callbackVars, stackVars, orderVars, domVars>>

vars == <<filterVars, lifecycleVars, registryVars, otherVars, lastCall>>

(* ------------------------------------------------------------------ *)
(* Filter set manager                                                  *)
(* ------------------------------------------------------------------ *)

\* The closure state of chart c that a filter call reads and writes.
ChartState(c) ==
    [filters |-> filters[c], dimFilter |-> dimFilter[c], controls |-> controls[c],
     fired |-> <<>>, observed |-> <<>>, handled |-> <<>>]

\* Mutants of hasFilter: membership by identity, and membership that also
\* asks a stored filter's isFiltered.
hasFilterStrict(fl, v) == \E i \in 1..Len(fl) : StrictEq(fl[i], v)

hasFilterOrIsFiltered(fl, v) ==
    \E i \in 1..Len(fl) : (JsLe(v, fl[i]) /\ JsGe(v, fl[i])) \/ isFiltered(fl[i], v)

\* _filters.some(f => filter <= f && filter >= f)
hasFilter(fl, v) == \E i \in 1..Len(fl) : JsLe(v, fl[i]) /\ JsGe(v, fl[i])

\* hasFilter() without an argument.
hasAnyFilter(fl) == Len(fl) > 0

\* filters() and the no-argument filter().
filterGet(fl) == IF Len(fl) > 0 THEN ValueArg(fl[1]) ELSE NullArg

\* The predicate the default handler hands to dimension.filterFunction,
\* evaluated on datum d over the captured list; an empty list clears the
\* dimension's filter, which accepts every datum.
dimensionAccepts(fl, d) ==
    \/ Len(fl) = 0
    \/ \E i \in 1..Len(fl) : isFiltered(fl[i], d) \/ (JsLe(fl[i], d) /\ JsGe(fl[i], d))

\* What the installed handler returns for the list it is handed:
\* truthy says whether the return value is truthy.
handlerReturn(h, fl) ==
    CASE h = "default" -> [truthy |-> TRUE, list |-> fl]
      [] h = "single" -> [truthy |-> TRUE, list |-> IF Len(fl) = 0 THEN <<>> ELSE <<fl[Len(fl)]>>]
      [] h = "void" -> [truthy |-> FALSE, list |-> <<>>]

\* The list the handler applies to the dimension.
handlerApplies(h, fl) ==
    IF h = "single" THEN (IF Len(fl) = 0 THEN <<>> ELSE <<fl[Len(fl)]>>) ELSE fl

\* Mutant of applyFilters: the handler's return value is dropped.
applyFiltersKeepPassed(c, s) ==
    IF dimension[c]
    THEN [s EXCEPT !.dimFilter = handlerApplies(handler[c], s.filters),
                   !.handled = Append(@, s.filters)]
    ELSE s

applyFilters(c, s) ==
    IF dimension[c]
    THEN LET fs == handlerReturn(handler[c], s.filters)
         IN  [s EXCEPT !.filters = IF fs.truthy THEN fs.list ELSE @,
                       !.dimFilter = handlerApplies(handler[c], s.filters),
                       !.handled = Append(@, s.filters)]
    ELSE s

\* What a listener called now reads: filters(), the filter of the
\* dimension, and how often the filter handler has run in this call.
Observation(s) ==
    [filters |-> s.filters, dimFilter |-> s.dimFilter, handled |-> Len(s.handled)]

\* _chart._invokeFilteredListener(f)
invokeFilteredListener(s, f) ==
    IF ~IsUndefinedArg(f)
    THEN [s EXCEPT !.fired = Append(@, f), !.observed = Append(@, Observation(s))]
    ELSE s

\* Array.prototype.splice(i, 1) on a 1-based list; i = 0 stands for the
\* index -1 of JavaScript, which addresses the last element.
Splice(fl, i) ==
    LET at == IF i = 0 THEN Len(fl) ELSE i
    IN  SubSeq(fl, 1, at - 1) \o SubSeq(fl, at + 1, Len(fl))

\* Array.prototype.indexOf(d), 1-based; 0 when no element === d.
IndexOf(fl, d) ==
    IF \E i \in 1..Len(fl) : StrictEq(fl[i], d)
    THEN CHOOSE i \in 1..Len(fl) :
            StrictEq(fl[i], d) /\ \A j \in 1..(i - 1) : ~StrictEq(fl[j], d)
    ELSE 0

\* Mutant of removeFilter: the last element is spliced out, not the match.
removeFilterLast(c, s, v) ==
    invokeFilteredListener(
        applyFilters(c, [s EXCEPT !.filters = SubSeq(@, 1, Len(@) - 1)]), ValueArg(v))

removeFilter(c, s, v) ==
    LET hits == {i \in 1..Len(s.filters) : JsLe(s.filters[i], v) /\ JsGe(s.filters[i], v)}
        s1 == IF hits = {} THEN s
              ELSE [s EXCEPT !.filters = Splice(@, CHOOSE i \in hits : \A j \in hits : i <= j)]
    IN  invokeFilteredListener(applyFilters(c, s1), ValueArg(v))

\* Mutant of addFilter: the listener is called before the new list is
\* pushed to the dimension.
addFilterNotifiesFirst(c, s, v) ==
    applyFilters(c, invokeFilteredListener([s EXCEPT !.filters = Append(@, v)], ValueArg(v)))

\* Mutant of addFilter: the new list is not pushed to the dimension.
addFilterNotApplied(c, s, v) ==
    invokeFilteredListener([s EXCEPT !.filters = Append(@, v)], ValueArg(v))

addFilter(c, s, v) ==
    invokeFilteredListener(applyFilters(c, [s EXCEPT !.filters = Append(@, v)]), ValueArg(v))

\* Mutant of resetFilters: the list is re-applied without being cleared.
resetFiltersKeep(c, s) ==
    invokeFilteredListener(applyFilters(c, s), NullArg)

resetFilters(c, s) ==
    invokeFilteredListener(applyFilters(c, [s EXCEPT !.filters = <<>>]), NullArg)

\* One step of the bulk branch's forEach.
bulkStep(fl, d) ==
    IF hasFilter(fl, d) THEN Splice(fl, IndexOf(fl, d)) ELSE Append(fl, d)

RECURSIVE bulkToggle(_, _)
bulkToggle(fl, ds) ==
    IF ds = <<>> THEN fl ELSE bulkToggle(bulkStep(fl, Head(ds)), Tail(ds))

\* The affordance hook the end of filter calls, the list being fl:
\* _root !== null && _chart.hasFilter()
controlsAfterIfRoot(c, fl) ==
    IF root[c] = "selection" /\ hasAnyFilter(fl) THEN "on" ELSE "off"

controlsAfter(c, fl) ==
    IF root[c] # "null" /\ hasAnyFilter(fl) THEN "on" ELSE "off"

\* _chart.filter(_) called with an argument.
filter(c, s, arg) ==
    LET s1 == CASE arg.form = "bulk" ->
                    invokeFilteredListener(
                        applyFilters(c, [s EXCEPT !.filters = bulkToggle(@, arg.inner)]), arg)
                [] arg.form = "null" -> resetFilters(c, s)
                [] arg.form = "value" ->
                    IF hasFilter(s.filters, arg.v)
                    THEN removeFilter(c, s, arg.v)
                    ELSE addFilter(c, s, arg.v)
    IN  [s1 EXCEPT !.controls = controlsAfter(c, s1.filters)]

\* _chart.filterAll()
filterAll(c, s) == filter(c, s, NullArg)

\* Mutant of replaceFilter: the list is not cleared first.
replaceFilterNoClear(c, s, arg) == filter(c, s, arg)

\* _chart.replaceFilter(_)
replaceFilter(c, s, arg) == filter(c, [s EXCEPT !.filters = <<>>], arg)

(* ------------------------------------------------------------------ *)
(* Listener table                                                      *)
(* ------------------------------------------------------------------ *)

\* The six hooks of d3.dispatch(...) in baseMixin.
Hooks == {"preRender", "postRender", "preRedraw", "postRedraw", "filtered", "zoomed"}

\* on(type, f): type is a hook, or a hook followed by "." and a namespace;
\* the namespace is the name the subscriber is kept under.
Namespaces == {"", "a"}

\* The callbacks a page subscribes.
Fns == {"f1", "f2"}

Subscriber(name, f) == [name |-> name, on |-> f]

\* Mutant of dispatchOn: a subscriber of the same name is kept.
dispatchOnKeep(ls, name, f) == Append(ls, Subscriber(name, f))

\* _listeners.on(type, f) on the subscribers ls of the hook of type: the
\* dispatch removes the subscriber registered under the same name, then
\* adds the new one at the end.
dispatchOn(ls, name, f) ==
    Append(SelectSeq(ls, LAMBDA l : l.name # name), Subscriber(name, f))

RECURSIVE dispatchCall(_, _)
\* _listeners[h](...): the subscribers ls of hook h are called in order.
dispatchCall(ls, h) ==
    IF ls = <<>> THEN <<>>
    ELSE <<[hook |-> h, fn |-> Head(ls).on]>> \o dispatchCall(Tail(ls), h)

RECURSIVE invocations(_)
\* The subscribers called by the hooks that fired in the events lg.
invocations(lg) ==
    IF lg = <<>> THEN <<>>
    ELSE (IF Head(lg).ev \in Hooks
          THEN dispatchCall(listeners[Head(lg).chart][Head(lg).ev], Head(lg).ev)
          ELSE <<>>) \o invocations(Tail(lg))

RECURSIVE filteredCalls(_, _)
\* The subscribers called by _listeners.filtered(_chart, f), once for each
\* f of fs.
filteredCalls(c, fs) ==
    IF fs = <<>> THEN <<>>
    ELSE dispatchCall(listeners[c]["filtered"], "filtered") \o filteredCalls(c, Tail(fs))

(* ------------------------------------------------------------------ *)
(* Operations on the filter set                                        *)
(* ------------------------------------------------------------------ *)

Call(op, c, arg) == [op |-> op, chart |-> c, arg |-> arg, grp |-> "none"]

GroupCall(op, c, g) == [op |-> op, chart |-> c, arg |-> NullArg, grp |-> g]

\* The page configures a chart (dimension, filter handler) before it is
\* used: no filter call has run yet.
Configuring == lastCall.op \in {"init", "create", "filterHandler", "dimension", "group"}

\* Writes the closure state s a filter call left on chart c.
Commit(c, s, call) ==
    /\ Len(s.filters) <= MaxFilters
    /\ filters' = [filters EXCEPT ![c] = s.filters]
    /\ dimFilter' = [dimFilter EXCEPT ![c] = s.dimFilter]
    /\ controls' = [controls EXCEPT ![c] = s.controls]
    /\ fired' = s.fired
    /\ observed' = s.observed
    /\ handled' = s.handled
    /\ prev' = filters[c]
    /\ lastCall' = call
    /\ UNCHANGED <<stackVars, orderVars, domVars>>
    /\ log' = <<>>
    /\ called' = filteredCalls(c, s.fired)
    /\ UNCHANGED <<anchor, raised, badRenderlets, listeners>>

\* chart.filter(arg)
Filter(c, arg) ==
    /\ c \in charts
    /\ Commit(c, filter(c, ChartState(c), arg), Call("filter", c, arg))
    /\ UNCHANGED <<handler, dimension, registryVars>>
    /\ UNCHANGED <<group, legend, renderlets, transitionDuration, svg, pending>>

\* chart.filterAll()
FilterAll(c) ==
    /\ c \in charts
    /\ Commit(c, filterAll(c, ChartState(c)), Call("filterAll", c, NullArg))
    /\ UNCHANGED <<handler, dimension, registryVars>>
    /\ UNCHANGED <<group, legend, renderlets, transitionDuration, svg, pending>>

\* chart.replaceFilter(arg)
ReplaceFilter(c, arg) ==
    /\ c \in charts
    /\ Commit(c, replaceFilter(c, ChartState(c), arg), Call("replaceFilter", c, arg))
    /\ UNCHANGED <<handler, dimension, registryVars>>
    /\ UNCHANGED <<group, legend, renderlets, transitionDuration, svg, pending>>

\* The values the page sets the root element of a chart to.
Roots == {"undefined", "null", "selection"}

\* chart.root(r)
Root(c, r) ==
    /\ c \in charts
    /\ root[c] # r
    /\ root' = [root EXCEPT ![c] = r]
    /\ lastCall' = Call("root", c, NullArg)
    /\ prev' = filters[c]
    /\ fired' = <<>>
    /\ observed' = <<>>
    /\ handled' = <<>>
    /\ log' = <<>>
    /\ UNCHANGED <<filters, handler, dimension, dimFilter, controls, registryVars>>
    /\ UNCHANGED <<group, legend, renderlets, transitionDuration, svg, pending>>
    /\ UNCHANGED <<callbackVars, stackVars, orderVars>>

\* chart.filterHandler(h)
FilterHandler(c, h) ==
    /\ c \in charts
    /\ Configuring
    /\ handler' = [handler EXCEPT ![c] = h]
    /\ lastCall' = Call("filterHandler", c, NullArg)
    /\ prev' = filters[c]
    /\ fired' = <<>>
    /\ observed' = <<>>
    /\ handled' = <<>>
    /\ log' = <<>>
    /\ UNCHANGED <<filters, dimension, dimFilter, controls, registryVars>>
    /\ UNCHANGED <<group, legend, renderlets, transitionDuration, svg, pending>>
    /\ UNCHANGED otherVars

\* chart.dimension(d): d says whether the value is a filterable dimension.
Dimension(c, d) ==
    /\ c \in charts
    /\ Configuring
    /\ dimension' = [dimension EXCEPT ![c] = d]
    /\ lastCall' = Call("dimension", c, NullArg)
    /\ prev' = filters[c]
    /\ fired' = <<>>
    /\ observed' = <<>>
    /\ handled' = <<>>
    /\ log' = <<>>
    /\ UNCHANGED <<filters, handler, dimFilter, controls, registryVars>>
    /\ UNCHANGED <<group, legend, renderlets, transitionDuration, svg, pending>>
    /\ UNCHANGED otherVars

\* A selector string such as "#c1", as its characters.
SelectorAnchor(t) == [kind |-> "selector", text |-> t]

\* A dom element; id is empty when the element has none.
ElementAnchor(id) == [kind |-> "element", text |-> id]

\* The anchor dc.lineChart(parent, g) hands to chart c.
ParentOf(c) == SelectorAnchor(<<"#", "c", ToString(c)>>)

\* No x scale is bound to the chart.
NoScale == [kind |-> "none", elastic |-> FALSE, domain |-> <<>>]

\* data() has not been called.
NotPulled == [pulled |-> FALSE, threw |-> FALSE, layers |-> <<>>]

\* The names titles are set and asked for, the title functions the page
\* supplies, and the title function a chart starts with.
TitleNames == {"A", "B"}

TitleFns == {"f1", "f2"}

DefaultTitle == "keyAndValue"

\* _titles[s] is not set.
NoTitle == "undefined"

\* The chart itself, which a setter returns.
ThisChart == "chart"

\* _computeOrderedGroups has not been called.
NotOrdered == [called |-> FALSE, by |-> "key", input |-> << >>, data |-> << >>, result |-> << >>]

\* Neither yAxisMin() nor yAxisMax() has been called.
NoExtent == [defined |-> FALSE, threw |-> FALSE, value |-> 0, padding |-> 0]

\* No exception escaped the call.
NoException == [type |-> "none", attribute |-> "", anchorName |-> <<>>]

\* The closure variables of every chart as baseMixin initialises them.
Constructed ==
    /\ filters = [c \in ChartIds |-> <<>>]
    /\ handler = [c \in ChartIds |-> "default"]
    /\ dimension = [c \in ChartIds |-> FALSE]
    /\ dimFilter = [c \in ChartIds |-> <<>>]
    /\ controls = [c \in ChartIds |-> "none"]
    /\ group = [c \in ChartIds |-> FALSE]
    /\ legend = [c \in ChartIds |-> FALSE]
    /\ renderlets = [c \in ChartIds |-> 0]
    /\ transitionDuration = [c \in ChartIds |-> DefaultTransitionDuration]
    /\ svg = [c \in ChartIds |-> FALSE]
    /\ pending = [c \in ChartIds |-> <<>>]
    /\ lastCall = Call("init", 0, NullArg)
    /\ prev = <<>>
    /\ fired = <<>>
    /\ observed = <<>>
    /\ handled = <<>>
    /\ log = <<>>
    /\ anchor = [c \in ChartIds |-> ParentOf(c)]
    /\ raised = NoException
    /\ badRenderlets = [c \in ChartIds |-> {}]
    /\ listeners = [c \in ChartIds |-> [h \in Hooks |-> <<>>]]
    /\ called = <<>>
    /\ stack = <<>>
    /\ xScale = NoScale
    /\ evadeDomainFilter = FALSE
    /\ dataResult = NotPulled
    /\ groupValues = 0
    /\ axisResult = NoExtent
    /\ titles = [s \in TitleNames |-> NoTitle]
    /\ groupName = ""
    /\ title = DefaultTitle
    /\ titleResult = ThisChart
    /\ hidableStacks = FALSE
    /\ ordering = "key"
    /\ orderSort = "undefined"
    /\ orderResult = NotOrdered
    /\ root = [c \in ChartIds |-> "selection"]

\* A page with one chart, just constructed and registered in group "g1".
Init ==
    /\ Constructed
    /\ charts = {1}
    /\ registry = [g \in GroupNames |-> IF g = "g1" THEN <<1>> ELSE <<>>]
    /\ chartGroup = [c \in ChartIds |-> "g1"]

Next ==
    \/ \E c \in ChartIds, arg \in FilterArgs : Filter(c, arg)
    \/ \E c \in ChartIds : FilterAll(c)
    \/ \E c \in ChartIds, arg \in FilterArgs : ReplaceFilter(c, arg)
    \/ \E c \in ChartIds, h \in Handlers : FilterHandler(c, h)
    \/ \E c \in ChartIds, d \in BOOLEAN : Dimension(c, d)

Spec == Init /\ [][Next]_vars

(* ------------------------------------------------------------------ *)
(* Render / redraw lifecycle                                           *)
(* ------------------------------------------------------------------ *)

\* var _mandatoryAttributes = ['dimension', 'group']
mandatoryAttributes == <<"dimension", "group">>

\* _chart[a] && _chart[a]()
attributeSet(c, a) ==
    CASE a = "dimension" -> dimension[c]
      [] a = "group" -> group[c]
      [] OTHER -> FALSE

\* The attribute checkForMandatoryAttributes throws for first, or "none".
missingAttribute(c) ==
    LET miss == {i \in 1..Len(mandatoryAttributes) : ~attributeSet(c, mandatoryAttributes[i])}
    IN  IF miss = {} THEN "none"
        ELSE mandatoryAttributes[CHOOSE i \in miss : \A j \in miss : i <= j]

\* One lifecycle event of chart c; n numbers the renderlets.
Ev(c, e, d) == [chart |-> c, ev |-> e, detail |-> d, n |-> 0]

RenderletEv(c, i) == [chart |-> c, ev |-> "renderlet", detail |-> "", n |-> i]

\* The lifecycle state a render or redraw threads: the events so far, the
\* scheduled transition ends, and whether the call threw.
World == [log |-> <<>>, pending |-> pending, threw |-> FALSE]

Emit(w, e) == [w EXCEPT !.log = Append(@, e)]

Throw(w, c, d) == [w EXCEPT !.log = Append(@, Ev(c, "error", d)), !.threw = TRUE]

RECURSIVE renderletsFrom(_, _, _)
\* runAllRenderlets, from renderlet i on.
renderletsFrom(c, w, i) ==
    IF i > renderlets[c] THEN w
    ELSE IF i \in badRenderlets[c] THEN Throw(Emit(w, RenderletEv(c, i)), c, "renderlet")
    ELSE renderletsFrom(c, Emit(w, RenderletEv(c, i)), i + 1)

runAllRenderlets(c, w) == renderletsFrom(c, w, 1)

\* _listeners[event](_chart), reached unless an exception is on its way out.
fire(c, w, event) == IF w.threw THEN w ELSE Emit(w, Ev(c, event, ""))

\* runAllRenderlets(); if (event) _listeners[event](_chart);
renderletsThenEvent(c, w, event) == fire(c, runAllRenderlets(c, w), event)

\* Mutants of activateRenderlets: the svg element is not asked for, and the
\* post event is fired before the renderlets.
activateRenderletsNoSvg(c, w, event) ==
    IF transitionDuration[c] > 0
    THEN [w EXCEPT !.pending[c] = Append(@, event)]
    ELSE renderletsThenEvent(c, w, event)

activateRenderletsEventFirst(c, w, event) ==
    IF transitionDuration[c] > 0 /\ svg[c]
    THEN [w EXCEPT !.pending[c] = Append(@, event)]
    ELSE runAllRenderlets(c, fire(c, w, event))

\* _chart._activateRenderlets(event)
activateRenderlets(c, w, event) ==
    IF transitionDuration[c] > 0 /\ svg[c]
    THEN [w EXCEPT !.pending[c] = Append(@, event)]
    ELSE renderletsThenEvent(c, w, event)

\* if (_legend) _legend.render()
legendRender(c, w) == IF legend[c] THEN Emit(w, Ev(c, "legend", "")) ELSE w

\* Mutant of render: the mandatory attributes are checked after the draw.
renderValidatesLate(c, w, failing) ==
    LET w1 == Emit(Emit(w, Ev(c, "preRender", "")), Ev(c, "doRender", ""))
    IN  IF c \in failing THEN Throw(w1, c, "hook")
        ELSE IF missingAttribute(c) # "none"
        THEN Throw(Emit(w1, Ev(c, "validate", "")), c, missingAttribute(c))
        ELSE activateRenderlets(c, legendRender(c, Emit(w1, Ev(c, "validate", ""))), "postRender")

\* _chart.render(); the drawing hook of the charts in failing throws.
render(c, w, failing) ==
    LET w1 == Emit(Emit(w, Ev(c, "preRender", "")), Ev(c, "validate", ""))
    IN  IF missingAttribute(c) # "none" THEN Throw(w1, c, missingAttribute(c))
        ELSE IF c \in failing THEN Throw(Emit(w1, Ev(c, "doRender", "")), c, "hook")
        ELSE activateRenderlets(c, legendRender(c, Emit(w1, Ev(c, "doRender", ""))), "postRender")

\* Mutant of redraw: the mandatory attributes are checked as in render.
redrawValidates(c, w, failing) ==
    LET w1 == Emit(w, Ev(c, "preRedraw", ""))
    IN  IF missingAttribute(c) # "none" THEN Throw(w1, c, missingAttribute(c))
        ELSE IF c \in failing THEN Throw(Emit(w1, Ev(c, "doRedraw", "")), c, "hook")
        ELSE activateRenderlets(c, legendRender(c, Emit(w1, Ev(c, "doRedraw", ""))), "postRedraw")

\* _chart.redraw()
redraw(c, w, failing) ==
    LET w1 == Emit(w, Ev(c, "preRedraw", ""))
    IN  IF c \in failing THEN Throw(Emit(w1, Ev(c, "doRedraw", "")), c, "hook")
        ELSE activateRenderlets(c, legendRender(c, Emit(w1, Ev(c, "doRedraw", ""))), "postRedraw")

(* ------------------------------------------------------------------ *)
(* Chart group registry                                                *)
(* ------------------------------------------------------------------ *)

\* dc.registerChart(chart, group): the chart joins the end of the bucket.
registerChart(reg, c, g) == [reg EXCEPT ![g] = Append(@, c)]

\* Mutant of renderEach: the first error ends the loop.
RECURSIVE renderEachStop(_, _, _)
renderEachStop(cs, w, failing) ==
    IF cs = <<>> \/ w.threw THEN w
    ELSE renderEachStop(Tail(cs), render(Head(cs), w, failing), failing)

RECURSIVE renderEach(_, _, _)
\* The loop of dc.renderAll over the charts cs: an error of one chart is
\* reported and the loop goes on.
renderEach(cs, w, failing) ==
    IF cs = <<>> THEN w
    ELSE renderEach(Tail(cs), [render(Head(cs), w, failing) EXCEPT !.threw = FALSE], failing)

RECURSIVE redrawEach(_, _, _)
\* The loop of dc.redrawAll.
redrawEach(cs, w, failing) ==
    IF cs = <<>> THEN w
    ELSE redrawEach(Tail(cs), [redraw(Head(cs), w, failing) EXCEPT !.threw = FALSE], failing)

\* dc.renderAll(group)
renderAll(g, w, failing) == renderEach(registry[g], w, failing)

\* dc.redrawAll(group)
redrawAll(g, w, failing) == redrawEach(registry[g], w, failing)

\* Mutant of redrawGroup: the group is rendered, not redrawn.
redrawGroupRenders(c, w, failing) == renderAll(chartGroup[c], w, failing)

\* _chart.redrawGroup()
redrawGroup(c, w, failing) == redrawAll(chartGroup[c], w, failing)

\* _chart.renderGroup()
renderGroup(c, w, failing) == renderAll(chartGroup[c], w, failing)

(* ------------------------------------------------------------------ *)
(* Operations on charts and groups                                     *)
(* ------------------------------------------------------------------ *)

\* Charts whose drawing hook may throw during one group operation.
Failings == {{}} \cup {{c} : c \in charts}

\* Writes what a render or redraw of a group left.
CommitLifecycle(w, call) ==
    /\ log' = w.log
    /\ pending' = w.pending
    /\ lastCall' = call
    /\ UNCHANGED <<stackVars, orderVars, domVars>>
    /\ prev' = <<>>
    /\ fired' = <<>>
    /\ observed' = <<>>
    /\ handled' = <<>>
    /\ UNCHANGED <<filters, handler, dimension, dimFilter, controls, registryVars>>
    /\ UNCHANGED <<group, legend, renderlets, transitionDuration, svg>>
    /\ called' = invocations(w.log)
    /\ UNCHANGED <<anchor, raised, badRenderlets, listeners>>

\* dc.lineChart(parent, g): the next chart is constructed and anchored,
\* which registers it in group g.
CreateChart(c, g) ==
    /\ c \notin charts
    /\ c = Cardinality(charts) + 1
    /\ charts' = charts \cup {c}
    /\ registry' = registerChart(registry, c, g)
    /\ chartGroup' = [chartGroup EXCEPT ![c] = g]
    /\ lastCall' = GroupCall("create", c, g)
    /\ prev' = <<>>
    /\ fired' = <<>>
    /\ observed' = <<>>
    /\ handled' = <<>>
    /\ log' = <<>>
    /\ UNCHANGED <<filters, handler, dimension, dimFilter, controls>>
    /\ UNCHANGED <<group, legend, renderlets, transitionDuration, svg, pending>>
    /\ UNCHANGED otherVars

\* chart.group(g): b says whether the value is truthy.
Group(c, b) ==
    /\ c \in charts
    /\ Configuring
    /\ group' = [group EXCEPT ![c] = b]
    /\ lastCall' = Call("group", c, NullArg)
    /\ prev' = filters[c]
    /\ fired' = <<>>
    /\ observed' = <<>>
    /\ handled' = <<>>
    /\ log' = <<>>
    /\ UNCHANGED <<filters, handler, dimension, dimFilter, controls, registryVars>>
    /\ UNCHANGED <<legend, renderlets, transitionDuration, svg, pending>>
    /\ UNCHANGED otherVars

\* dc.renderAll(g)
RenderAll(g, failing) ==
    CommitLifecycle(renderAll(g, World, failing), GroupCall("renderAll", 0, g))

\* dc.redrawAll(g)
RedrawAll(g, failing) ==
    CommitLifecycle(redrawAll(g, World, failing), GroupCall("redrawAll", 0, g))

\* chart.renderGroup()
RenderGroup(c, failing) ==
    /\ c \in charts
    /\ CommitLifecycle(renderGroup(c, World, failing), GroupCall("renderGroup", c, chartGroup[c]))

\* chart.redrawGroup()
RedrawGroup(c, failing) ==
    /\ c \in charts
    /\ CommitLifecycle(redrawGroup(c, World, failing), GroupCall("redrawGroup", c, chartGroup[c]))

\* The user filters through the first chart of the page.
FirstChart(c) == \A d \in charts : c <= d

\* A page on which no chart has been constructed yet.
\* Filtering charts whose root element the page sets.
ControlsNext ==
    \/ \E c \in ChartIds, r \in Roots : Root(c, r)
    \/ \E c \in ChartIds, d \in BOOLEAN : Dimension(c, d)
    \/ \E c \in ChartIds, arg \in FilterArgs : Filter(c, arg)
    \/ \E c \in ChartIds : FilterAll(c)
    \/ \E c \in ChartIds, arg \in {ValueArg(N1), ValueArg(N2)} : ReplaceFilter(c, arg)

ControlsSpec == Init /\ [][ControlsNext]_vars

GroupInit ==
    /\ Constructed
    /\ charts = {}
    /\ registry = [g \in GroupNames |-> <<>>]
    /\ chartGroup = [c \in ChartIds |-> "g1"]

GroupNext ==
    \/ \E c \in ChartIds, g \in GroupNames : CreateChart(c, g)
    \/ \E c \in ChartIds, d \in BOOLEAN : Dimension(c, d)
    \/ \E c \in ChartIds, b \in BOOLEAN : Group(c, b)
    \/ \E c \in ChartIds : FirstChart(c) /\ Filter(c, ValueArg(N1))
    \/ \E g \in GroupNames, failing \in Failings : RenderAll(g, failing)
    \/ \E g \in GroupNames, failing \in Failings : RedrawAll(g, failing)
    \/ \E c \in ChartIds, failing \in Failings : RenderGroup(c, failing)
    \/ \E c \in ChartIds, failing \in Failings : RedrawGroup(c, failing)

GroupSpec == GroupInit /\ [][GroupNext]_vars

(* ------------------------------------------------------------------ *)
(* Re-anchoring and regrouping a chart                                 *)
(* ------------------------------------------------------------------ *)

\* anchor(a, g) called with another chart d as a.
ChartArg(d) == [kind |-> "chart", text |-> <<ToString(d)>>]

\* The chart a chart argument stands for.
ChartOfArg(a) == CHOOSE d \in ChartIds : ChartArg(d) = a

\* What a page anchors a chart to: an element with an id, or another chart.
AnchorArgs == {ElementAnchor(<<"b">>)} \cup {ChartArg(d) : d \in ChartIds}

\* chart.anchor(a, g)
Anchor(c, a, g) ==
    /\ c \in charts
    /\ a.kind = "chart" => ChartOfArg(a) \in charts \ {c}
    /\ anchor' = [anchor EXCEPT ![c] = IF a.kind = "chart" THEN anchor[ChartOfArg(a)] ELSE a]
    /\ registry' = IF a.kind = "chart" THEN registry ELSE registerChart(registry, c, g)
    /\ Len(registry'[g]) <= NumCharts
    /\ chartGroup' = [chartGroup EXCEPT ![c] = g]
    /\ root' = [root EXCEPT ![c] = IF a.kind = "chart" THEN root[ChartOfArg(a)]
                                    ELSE "selection"]
    /\ lastCall' = GroupCall("anchor", c, g)
    /\ UNCHANGED <<stackVars, orderVars>>
    /\ prev' = <<>>
    /\ fired' = <<>>
    /\ observed' = <<>>
    /\ handled' = <<>>
    /\ log' = <<>>
    /\ UNCHANGED <<charts, raised, badRenderlets, listeners, called>>
    /\ UNCHANGED <<filters, handler, dimension, dimFilter, controls>>
    /\ UNCHANGED <<group, legend, renderlets, transitionDuration, svg, pending>>

\* chart.chartGroup(g)
ChartGroup(c, g) ==
    /\ c \in charts
    /\ chartGroup' = [chartGroup EXCEPT ![c] = g]
    /\ lastCall' = GroupCall("chartGroup", c, g)
    /\ prev' = <<>>
    /\ fired' = <<>>
    /\ observed' = <<>>
    /\ handled' = <<>>
    /\ log' = <<>>
    /\ UNCHANGED <<charts, registry, otherVars>>
    /\ UNCHANGED <<filters, handler, dimension, dimFilter, controls>>
    /\ UNCHANGED <<group, legend, renderlets, transitionDuration, svg, pending>>

RegistryNext ==
    \/ \E c \in ChartIds, g \in GroupNames : CreateChart(c, g)
    \/ \E c \in ChartIds, g \in GroupNames : FirstChart(c) /\ ChartGroup(c, g)
    \/ \E c \in ChartIds, a \in AnchorArgs, g \in GroupNames : Anchor(c, a, g)
    \/ \E c \in ChartIds : RenderGroup(c, {})
    \/ \E c \in ChartIds : RedrawGroup(c, {})

RegistrySpec == GroupInit /\ [][RegistryNext]_vars

(* ------------------------------------------------------------------ *)
(* Rendering and redrawing one chart                                   *)
(* ------------------------------------------------------------------ *)

RECURSIVE removeFirst(_, _)
\* String.prototype.replace(ch, ''): the first occurrence of ch goes.
removeFirst(t, ch) ==
    IF t = <<>> THEN <<>>
    ELSE IF Head(t) = ch THEN Tail(t)
    ELSE <<Head(t)>> \o removeFirst(Tail(t), ch)

\* Mutant of anchorName: the selector is returned as it is.
anchorNameWithHash(c) ==
    IF anchor[c].text # <<>> THEN anchor[c].text ELSE <<ToString(c)>>

\* _chart.anchorName()
anchorName(c) ==
    LET a == anchor[c]
    IN  IF a.kind = "element" /\ a.text # <<>> THEN a.text
        ELSE IF a.kind = "selector" /\ a.text # <<>> THEN removeFirst(a.text, "#")
        ELSE <<ToString(c)>>

\* The exception a call that ended in world w let escape.
raisedBy(w) ==
    IF ~w.threw THEN NoException
    ELSE LET e == w.log[Len(w.log)]
         IN  IF \E i \in 1..Len(mandatoryAttributes) : mandatoryAttributes[i] = e.detail
             THEN [type |-> "InvalidStateException", attribute |-> e.detail,
                   anchorName |-> anchorName(e.chart)]
             ELSE [type |-> "Error", attribute |-> "", anchorName |-> <<>>]

\* Writes what a render or redraw of one chart, or the end of one of its
\* transitions, left.
CommitRender(w, call) ==
    /\ \A c \in ChartIds : Len(w.pending[c]) <= MaxPending
    /\ log' = w.log
    /\ pending' = w.pending
    /\ raised' = raisedBy(w)
    /\ lastCall' = call
    /\ UNCHANGED <<stackVars, orderVars, domVars>>
    /\ prev' = <<>>
    /\ fired' = <<>>
    /\ observed' = <<>>
    /\ handled' = <<>>
    /\ UNCHANGED <<filters, handler, dimension, dimFilter, controls, registryVars>>
    /\ UNCHANGED <<group, legend, renderlets, transitionDuration, svg>>
    /\ called' = invocations(w.log)
    /\ UNCHANGED <<anchor, badRenderlets, listeners>>

\* chart.render()
Render(c, failing) ==
    /\ c \in charts
    /\ CommitRender(render(c, World, failing), Call("render", c, NullArg))

\* chart.redraw()
Redraw(c, failing) ==
    /\ c \in charts
    /\ CommitRender(redraw(c, World, failing), Call("redraw", c, NullArg))

\* The transition scheduled i-th on the chart's svg ends: the callback
\* handed to each('end', ...) runs.
TransitionEnd(c, i) ==
    /\ c \in charts
    /\ i \in 1..Len(pending[c])
    /\ CommitRender(
          renderletsThenEvent(c, [World EXCEPT !.pending[c] = Splice(pending[c], i)], pending[c][i]),
          Call("transitionEnd", c, NullArg))

\* What is written by a setter of the lifecycle's configuration.
Configure(call) ==
    /\ lastCall' = call
    /\ UNCHANGED <<stackVars, orderVars, domVars>>
    /\ prev' = <<>>
    /\ fired' = <<>>
    /\ observed' = <<>>
    /\ handled' = <<>>
    /\ log' = <<>>
    /\ raised' = NoException
    /\ called' = <<>>
    /\ UNCHANGED <<filters, handler, dimension, dimFilter, controls, registryVars>>
    /\ UNCHANGED <<anchor, listeners, pending>>

\* chart.legend(l)
Legend(c) ==
    /\ c \in charts
    /\ legend' = [legend EXCEPT ![c] = TRUE]
    /\ Configure(Call("legend", c, NullArg))
    /\ UNCHANGED <<group, renderlets, transitionDuration, svg, badRenderlets>>

\* Durations a page configures.
Durations == {0, DefaultTransitionDuration}

\* chart.transitionDuration(d)
TransitionDuration(c, d) ==
    /\ c \in charts
    /\ transitionDuration' = [transitionDuration EXCEPT ![c] = d]
    /\ Configure(Call("transitionDuration", c, NullArg))
    /\ UNCHANGED <<group, legend, renderlets, svg, badRenderlets>>

\* chart.resetSvg()
ResetSvg(c) ==
    /\ c \in charts
    /\ svg' = [svg EXCEPT ![c] = TRUE]
    /\ Configure(Call("resetSvg", c, NullArg))
    /\ UNCHANGED <<group, legend, renderlets, transitionDuration, badRenderlets>>

\* chart.renderlet(f): throws says whether f raises when it is called.
Renderlet(c, throws) ==
    /\ c \in charts
    /\ renderlets[c] < MaxRenderlets
    /\ renderlets' = [renderlets EXCEPT ![c] = @ + 1]
    /\ badRenderlets' = [badRenderlets EXCEPT ![c] = IF throws THEN @ \cup {renderlets[c] + 1} ELSE @]
    /\ Configure(Call("renderlet", c, NullArg))
    /\ UNCHANGED <<group, legend, transitionDuration, svg>>

LifecycleNext ==
    \/ \E c \in ChartIds, d \in BOOLEAN : Dimension(c, d)
    \/ \E c \in ChartIds, b \in BOOLEAN : Group(c, b)
    \/ \E c \in ChartIds : Legend(c)
    \/ \E c \in ChartIds, d \in Durations : TransitionDuration(c, d)
    \/ \E c \in ChartIds : ResetSvg(c)
    \/ \E c \in ChartIds, throws \in BOOLEAN : Renderlet(c, throws)
    \/ \E c \in ChartIds, failing \in Failings : Render(c, failing)
    \/ \E c \in ChartIds, failing \in Failings : Redraw(c, failing)
    \/ \E c \in ChartIds, i \in 1..MaxPending : TransitionEnd(c, i)
    \/ \E c \in ChartIds : Anchor(c, ElementAnchor(<<"b">>), chartGroup[c])

LifecycleSpec == Init /\ [][LifecycleNext]_vars

(* ------------------------------------------------------------------ *)
(* Subscribing to the hooks                                            *)
(* ------------------------------------------------------------------ *)

RECURSIVE SumLen(_, _)
\* The number of subscribers of the hooks hs in table t.
SumLen(t, hs) ==
    IF hs = {} THEN 0
    ELSE LET h == CHOOSE x \in hs : TRUE IN Len(t[h]) + SumLen(t, hs \ {h})

\* chart.on(type, f), type being hook h followed by namespace ns.
On(c, h, ns, f) ==
    /\ c \in charts
    /\ listeners' = [listeners EXCEPT ![c][h] = dispatchOn(@, ns, f)]
    /\ SumLen(listeners'[c], Hooks) <= MaxSubscribers
    /\ lastCall' = GroupCall("on", c, h)
    /\ UNCHANGED <<stackVars, orderVars, domVars>>
    /\ prev' = <<>>
    /\ fired' = <<>>
    /\ observed' = <<>>
    /\ handled' = <<>>
    /\ log' = <<>>
    /\ called' = <<>>
    /\ UNCHANGED <<filters, handler, dimension, dimFilter, controls, registryVars>>
    /\ UNCHANGED <<group, legend, renderlets, transitionDuration, svg, pending>>
    /\ UNCHANGED <<anchor, raised, badRenderlets>>

\* chart._invokeZoomedListener()
InvokeZoomedListener(c) ==
    /\ c \in charts
    /\ CommitRender(fire(c, World, "zoomed"), Call("zoomed", c, NullArg))

\* chart.options({dimension: d, group: g}): each key's setter is called.
Options(c) ==
    /\ c \in charts
    /\ dimension' = [dimension EXCEPT ![c] = TRUE]
    /\ group' = [group EXCEPT ![c] = TRUE]
    /\ lastCall' = Call("options", c, NullArg)
    /\ UNCHANGED <<stackVars, orderVars, domVars>>
    /\ prev' = <<>>
    /\ fired' = <<>>
    /\ observed' = <<>>
    /\ handled' = <<>>
    /\ log' = <<>>
    /\ called' = <<>>
    /\ UNCHANGED <<filters, handler, dimFilter, controls, registryVars>>
    /\ UNCHANGED <<legend, renderlets, transitionDuration, svg, pending>>
    /\ UNCHANGED <<anchor, raised, badRenderlets, listeners>>

ListenerNext ==
    \/ \E c \in ChartIds, h \in Hooks, ns \in Namespaces, f \in Fns : On(c, h, ns, f)
    \/ \E c \in ChartIds : Options(c)
    \/ \E c \in ChartIds : Render(c, {})
    \/ \E c \in ChartIds : Redraw(c, {})
    \/ \E c \in ChartIds : FilterAll(c)
    \/ \E c \in ChartIds : InvokeZoomedListener(c)

ListenerSpec == Init /\ [][ListenerNext]_vars

(* ------------------------------------------------------------------ *)
(* Ordering the records of a group                                     *)
(* ------------------------------------------------------------------ *)

\* The accessors the page orders by: dc.pluck('key'), the default, and
\* dc.pluck('value').
Accessors == {"key", "value"}

pluck(a, d) == IF a = "key" THEN d.key ELSE d.value

\* The records of the arrays that are ordered.
OrderRecords ==
    { [key |-> 1, value |-> 2], [key |-> 2, value |-> 2], [key |-> 3, value |-> 1] }

\* The arrays of at most n records.
RECURSIVE ArraysUpTo(_)
ArraysUpTo(n) ==
    IF n = 0 THEN { << >> }
    ELSE ArraysUpTo(n - 1) \cup
         { Append(a, r) : a \in {b \in ArraysUpTo(n - 1) : Len(b) = n - 1},
                          r \in OrderRecords }

\* crossfilter.quicksort.by(f) on a short array is an insertion sort:
\* record d goes before the first record of the sorted array a whose f
\* is greater.
RECURSIVE insertDescending(_, _, _)
insertDescending(a, d, f) ==
    IF a = << >> THEN << d >>
    ELSE IF pluck(f, Head(a)) < pluck(f, d) THEN << d >> \o a
    ELSE << Head(a) >> \o insertDescending(Tail(a), d, f)

RECURSIVE insert(_, _, _)
insert(a, d, f) ==
    IF a = << >> THEN << d >>
    ELSE IF pluck(f, Head(a)) > pluck(f, d) THEN << d >> \o a
    ELSE << Head(a) >> \o insert(Tail(a), d, f)

RECURSIVE quicksortBy(_, _, _)
quicksortBy(f, a, n) ==
    IF n = 0 THEN << >> ELSE insert(quicksortBy(f, a, n - 1), a[n], f)

\* The accessor _orderSort is made for once ordering(o) has returned.
orderSortKept(o) == orderSort

orderSortFor(o) == o

\* _chart._computeOrderedGroups(data): the array data as the call leaves
\* it, the array returned, and the accessor _orderSort is made for.
computeOrderedGroupsInPlace(data) ==
    LET by == IF orderSort = "undefined" THEN ordering ELSE orderSort
    IN  IF Len(data) <= 1
        THEN [data |-> data, result |-> data, by |-> orderSort]
        ELSE [data |-> quicksortBy(by, data, Len(data)),
              result |-> quicksortBy(by, data, Len(data)), by |-> by]

computeOrderedGroups(data) ==
    LET by == IF orderSort = "undefined" THEN ordering ELSE orderSort
    IN  IF Len(data) <= 1
        THEN [data |-> data, result |-> data, by |-> orderSort]
        ELSE [data |-> data, result |-> quicksortBy(by, data, Len(data)), by |-> by]

\* chart.ordering(o)
Ordering(o) ==
    /\ ordering' = o
    /\ orderSort' = orderSortFor(o)
    /\ lastCall' = Call("ordering", 1, NullArg)
    /\ UNCHANGED << filterVars, lifecycleVars, registryVars, callbackVars, stackVars, domVars,
                    orderResult >>

\* chart._computeOrderedGroups(data)
ComputeOrderedGroups(data) ==
    /\ LET r == computeOrderedGroups(data)
       IN  /\ orderSort' = r.by
           /\ orderResult' = [called |-> TRUE, by |-> ordering, input |-> data,
                               data |-> r.data, result |-> r.result]
    /\ lastCall' = Call("computeOrderedGroups", 1, NullArg)
    /\ UNCHANGED << filterVars, lifecycleVars, registryVars, callbackVars, stackVars, domVars,
                    ordering >>

OrderNext ==
    \/ \E o \in Accessors : Ordering(o)
    \/ \E data \in ArraysUpTo(MaxRecords) : ComputeOrderedGroups(data)

OrderSpec == Init /\ [][OrderNext]_vars

(* ------------------------------------------------------------------ *)
(* Stack mixin: the layers of a stacked chart                          *)
(* ------------------------------------------------------------------ *)

\* The names the page gives to layers, and the text of a layer index.
ExplicitNames == {"A", "B"}

IndexNames == {ToString(i) : i \in 0..(MaxLayers - 1)}

\* A layer the page did not name: typeof name !== 'string'.
NoName == ""

\* The records group g holds before the crossfilter is filtered, ordered
\* by key. Groups 7, 8 and 9 reduce another dimension than the others: one
\* key more, one key less, and other keys.
groupRecords(g) ==
    CASE g = 0 -> << [key |-> 1, value |-> -2], [key |-> 2, value |-> 4] >>
      [] g = 1 -> << [key |-> 1, value |-> 3], [key |-> 2, value |-> 5] >>
      [] g = 2 -> << [key |-> 1, value |-> 2], [key |-> 2, value |-> 1] >>
      [] g = 7 -> << [key |-> 1, value |-> 1], [key |-> 2, value |-> 2],
                     [key |-> 3, value |-> 1] >>
      [] g = 8 -> << [key |-> 1, value |-> 2] >>
      [] g = 9 -> << [key |-> 2, value |-> 4], [key |-> 3, value |-> 1] >>
      [] OTHER -> << [key |-> 1, value |-> g], [key |-> 2, value |-> g + 1] >>

\* The records group.all() returns for group g now.
groupAll(g) ==
    [k \in 1..Len(groupRecords(g)) |->
        [key |-> groupRecords(g)[k].key,
         value |-> groupRecords(g)[k].value + groupValues]]

\* d => d.key and d => d.value, the accessors a chart starts with.
keyAccessor(d) == d.key

valueAccessor(d) == d.value

\* The x scales the page binds: none, an ordinal one, a linear one whose
\* domain covers the first key only, with and without elasticX, and
\* linear ones over the other domains.
LinearDomain == << 1, 1 >>

\* x.domain() of the linear scales: one key at both ends, the last key at
\* the lower end, a three-entry domain ending at the last key, and one
\* beyond every key.
Domains == { LinearDomain, << 2, 3 >>, << 0, 3, 2 >>, << 3, 4 >> }

Scales ==
    { NoScale,
      [kind |-> "ordinal", elastic |-> FALSE, domain |-> LinearDomain],
      [kind |-> "linear", elastic |-> TRUE, domain |-> LinearDomain] }
    \cup { [kind |-> "linear", elastic |-> FALSE, domain |-> d] : d \in Domains }

\* _visibility: !l.hidden, hidden being undefined, false or true.
visibilityAll(l) == TRUE

visibility(l) == l.hidden # "true"

\* The indices of the layers of st that pass _visibility, in order.
RECURSIVE visibleFrom(_, _)
visibleFrom(st, i) ==
    IF i > Len(st) THEN << >>
    ELSE (IF visibility(st[i]) THEN << i >> ELSE << >>) \o visibleFrom(st, i + 1)

\* _domainFilter(): the predicate on a point p.
domainFilterExclusive(p) ==
    IF xScale.kind = "none" THEN TRUE
    ELSE IF xScale.kind = "ordinal" THEN TRUE
    ELSE IF xScale.elastic THEN TRUE
    ELSE p.x > xScale.domain[1] /\ p.x < xScale.domain[Len(xScale.domain)]

domainFilter(p) ==
    IF xScale.kind = "none" THEN TRUE
    ELSE IF xScale.kind = "ordinal" THEN TRUE
    ELSE IF xScale.elastic THEN TRUE
    ELSE p.x >= xScale.domain[1] /\ p.x <= xScale.domain[Len(xScale.domain)]

\* The indices of the points of all that pass the domain filter.
RECURSIVE keptFrom(_, _)
keptFrom(all, i) ==
    IF i > Len(all) THEN << >>
    ELSE (IF domainFilter(all[i]) THEN << i >> ELSE << >>) \o keptFrom(all, i + 1)

\* The point _prepareValues makes of record d of a layer: y0 and y1 are
\* not set until the layout writes them.
Point(d, l, name) ==
    [x |-> keyAccessor(d), y |-> valueAccessor(d), layer |-> name,
     hidden |-> l.hidden, stacked |-> FALSE, y0 |-> 0, y1 |-> 0]

RECURSIVE allValues(_, _, _)
allValues(l, name, i) ==
    IF i > Len(groupAll(l.group)) THEN << >>
    ELSE << Point(groupAll(l.group)[i], l, name) >> \o allValues(l, name, i + 1)

\* layer.name || layerIdx, as text.
layerNameByStackIndex(l, layerIdx, stackIdx) ==
    IF l.name = NoName THEN ToString(stackIdx) ELSE l.name

layerName(l, layerIdx, stackIdx) ==
    IF l.name = NoName THEN ToString(layerIdx) ELSE l.name

\* _prepareValues that keeps the points a layer already has.
prepareValuesCached(l, layerIdx, stackIdx) ==
    LET name == IF l.name = NoName THEN ToString(layerIdx) ELSE l.name
        all == IF l.prepared THEN l.all ELSE allValues(l, name, 1)
    IN  [l EXCEPT !.name = name, !.prepared = TRUE, !.all = all,
                  !.keep = keptFrom(all, 1), !.evaded = evadeDomainFilter]

\* _prepareValues(layer, layerIdx): layer l is the layerIdx-th visible one
\* (from 0) and the stackIdx-th of the stack list. all holds the points,
\* keep the indices of those in domainValues; values is all when the
\* domain filter is evaded and domainValues otherwise.
prepareValues(l, layerIdx, stackIdx) ==
    LET name == layerName(l, layerIdx, stackIdx)
        all == allValues(l, name, 1)
    IN  [l EXCEPT !.name = name, !.prepared = TRUE, !.all = all,
                  !.keep = keptFrom(all, 1), !.evaded = evadeDomainFilter]

\* layers.forEach((l, i) => this._prepareValues(l, i))
RECURSIVE prepareFrom(_, _, _)
prepareFrom(st, vis, p) ==
    IF p > Len(vis) THEN st
    ELSE prepareFrom([st EXCEPT ![vis[p]] = prepareValues(st[vis[p]], p - 1, vis[p] - 1)],
                     vis, p + 1)

\* layer.values has this many points, and its j-th is all[ValueIndex(l, j)].
NumValues(l) == IF l.evaded THEN Len(l.all) ELSE Len(l.keep)

ValueIndex(l, j) == IF l.evaded THEN j ELSE l.keep[j]

ValueAt(l, j) == l.all[ValueIndex(l, j)]

\* col[layer.name] after the forEach over the layers: the y of the last
\* layer that has this name.
RECURSIVE colOf(_, _, _, _, _)
colOf(st, vis, name, j, p) ==
    IF p = 0 THEN 0
    ELSE IF st[vis[p]].name = name THEN ValueAt(st[vis[p]], j).y
    ELSE colOf(st, vis, name, j, p - 1)

\* d3.stack() with the default order and offset, series p at row j:
\* [y0, y1], y0 being the y1 of the series below it and 0 for the first.
RECURSIVE stackLayoutFromZero(_, _, _, _)
stackLayoutFromZero(st, vis, p, j) ==
    << 0, colOf(st, vis, st[vis[p]].name, j, Len(vis)) >>

RECURSIVE stackLayout(_, _, _, _)
stackLayout(st, vis, p, j) ==
    LET y0 == IF p = 1 THEN 0 ELSE stackLayout(st, vis, p - 1, j)[2]
    IN  << y0, y0 + colOf(st, vis, st[vis[p]].name, j, Len(vis)) >>

\* series.forEach((ys, j) => { layers[i].values[j].y0 = ys[0]; ... }) for
\* the rows j..m of series p.
RECURSIVE writeSeries(_, _, _, _, _)
writeSeries(st, vis, p, j, m) ==
    IF j > m THEN st
    ELSE LET ys == stackLayout(st, vis, p, j)
             k == ValueIndex(st[vis[p]], j)
         IN  writeSeries([st EXCEPT ![vis[p]].all[k].y0 = ys[1],
                                    ![vis[p]].all[k].y1 = ys[2],
                                    ![vis[p]].all[k].stacked = TRUE],
                         vis, p, j + 1, m)

\* v4result.forEach((series, i) => ...): the layout values are computed by
\* the layout call, before any is written.
RECURSIVE writeResult(_, _, _, _, _)
writeResult(st0, st, vis, p, m) ==
    IF p > Len(vis) THEN st
    ELSE LET ws == writeSeries(st0, vis, p, 1, m)
         IN  writeResult(st0, [st EXCEPT ![vis[p]] = ws[vis[p]]], vis, p + 1, m)

\* The data callback of the constructor. It returns the stack list as
\* the call leaves it and what the call returned: the visible layers (by
\* index in the stack list), or a TypeError when a layer has fewer values
\* than the first one.
dataCallback(st) ==
    LET vis == visibleFrom(st, 1)
    IN  IF Len(vis) = 0
        THEN [stack |-> st, result |-> [pulled |-> TRUE, threw |-> FALSE, layers |-> << >>]]
        ELSE LET st1 == prepareFrom(st, vis, 1)
                 m == NumValues(st1[vis[1]])
             IN  IF \E p \in 1..Len(vis) : NumValues(st1[vis[p]]) < m
                 THEN [stack |-> st1,
                       result |-> [pulled |-> TRUE, threw |-> TRUE, layers |-> << >>]]
                 ELSE [stack |-> writeResult(st1, st1, vis, 1, m),
                       result |-> [pulled |-> TRUE, threw |-> FALSE, layers |-> vis]]

\* _findLayerByName(n): the index of the first layer named n, 0 when
\* there is none.
RECURSIVE findLayerLast(_, _, _)
findLayerLast(st, n, i) ==
    IF i = 0 THEN 0
    ELSE IF st[i].name = n THEN i
    ELSE findLayerLast(st, n, i - 1)

RECURSIVE findLayerByName(_, _, _)
findLayerByName(st, n, i) ==
    IF i > Len(st) THEN 0
    ELSE IF st[i].name = n THEN i
    ELSE findLayerByName(st, n, i + 1)

\* The layer stack(group, name) pushes.
Layer(g, name) ==
    [group |-> g, name |-> name, hidden |-> "undefined", prepared |-> FALSE,
     all |-> << >>, keep |-> << >>, evaded |-> FALSE]

\* A call on the stack chart.
StackCall(op) == [op |-> op, chart |-> 1, arg |-> NullArg, grp |-> "none"]

\* hideStack(n) or showStack(n) on the stack chart.
StackCallOn(op, n) ==
    [op |-> op, chart |-> 1, arg |-> NullArg, grp |-> "none", name |-> n]

\* Names the page gave are pairwise distinct.
FreshName(name) ==
    name = NoName \/ \A i \in 1..Len(stack) : stack[i].name # name

baseVars == << filterVars, lifecycleVars, registryVars, callbackVars, orderVars, domVars >>

\* chart.x(scale).elasticX(flag)
X(scale) ==
    /\ lastCall.op # "x"
    /\ xScale' = scale
    /\ lastCall' = StackCall("x")
    /\ UNCHANGED << baseVars, groupValues, auxVars, groupVars, stack, evadeDomainFilter, dataResult >>

\* chart.evadeDomainFilter(flag)
EvadeDomainFilter(flag) ==
    /\ evadeDomainFilter # flag
    /\ evadeDomainFilter' = flag
    /\ lastCall' = StackCall("evadeDomainFilter")
    /\ UNCHANGED << baseVars, groupValues, auxVars, groupVars, stack, xScale, dataResult >>

\* chart.stack(group, name), group being the group with records groupAll(g)
StackOf(g, name) ==
    /\ Len(stack) < MaxLayers
    /\ FreshName(name)
    /\ stack' = Append(stack, Layer(g, name))
    /\ lastCall' = StackCall("stack")
    /\ UNCHANGED << baseVars, groupValues, auxVars, groupVars, xScale, evadeDomainFilter, dataResult >>

\* chart.stack(group, name) with the next group of non-negative values
Stack(name) == StackOf(Len(stack) + 1, name)

\* chart.group(g, name): the stack list starts over with this one layer.
StackGroup(name) ==
    /\ stack' = << Layer(1, name) >>
    /\ titles' = [s \in TitleNames |-> NoTitle]
    /\ groupName' = name
    /\ lastCall' = StackCall("group")
    /\ UNCHANGED << baseVars, groupValues, auxVars, xScale, evadeDomainFilter, dataResult >>

\* The records of the crossfilter change (a filter on another dimension,
\* records added): every group reduces to other values.
GroupsChange ==
    /\ groupValues' = 1 - groupValues
    /\ lastCall' = StackCall("groupsChange")
    /\ UNCHANGED << baseVars, auxVars, groupVars, stack, xScale, evadeDomainFilter, dataResult >>

\* chart.hideStack(n)
HideStack(n) ==
    /\ LET i == findLayerByName(stack, n, 1)
       IN  stack' = IF i = 0 THEN stack ELSE [stack EXCEPT ![i].hidden = "true"]
    /\ lastCall' = StackCallOn("hideStack", n)
    /\ UNCHANGED << baseVars, groupValues, auxVars, groupVars, xScale, evadeDomainFilter, dataResult >>

\* chart.showStack(n)
ShowStack(n) ==
    /\ LET i == findLayerByName(stack, n, 1)
       IN  stack' = IF i = 0 THEN stack ELSE [stack EXCEPT ![i].hidden = "false"]
    /\ lastCall' = StackCallOn("showStack", n)
    /\ UNCHANGED << baseVars, groupValues, auxVars, groupVars, xScale, evadeDomainFilter, dataResult >>

\* chart.data()
Data ==
    /\ LET r == dataCallback(stack)
       IN  /\ stack' = r.stack
           /\ dataResult' = r.result
    /\ lastCall' = StackCall("data")
    /\ UNCHANGED << baseVars, groupValues, auxVars, groupVars, xScale, evadeDomainFilter >>

\* A title call on the stack chart with stack name s and function f.
TitleCall(op, s, f) ==
    [op |-> op, chart |-> 1, arg |-> NullArg, grp |-> "none", name |-> s, fn |-> f]

\* The title functions after title(s, f), s a stack name and f a
\* function: the chart-wide one is set when s is the group's name.
titlesAfterDropped(s, f) ==
    IF s = groupName
    THEN [titles |-> titles, title |-> title]
    ELSE [titles |-> [titles EXCEPT ![s] = f], title |-> title]

titlesAfterShared(s, f) ==
    IF s = groupName
    THEN [titles |-> titles, title |-> f]
    ELSE [titles |-> [t \in TitleNames |-> f], title |-> title]

titlesAfter(s, f) ==
    IF s = groupName
    THEN [titles |-> titles, title |-> f]
    ELSE [titles |-> [titles EXCEPT ![s] = f], title |-> title]

\* this._titles[s] || super.title()
titleOfOwnOnly(s) == titles[s]

titleOf(s) == IF titles[s] # NoTitle THEN titles[s] ELSE title

\* chart.title(s, f)
Title(s, f) ==
    /\ titles' = titlesAfter(s, f).titles
    /\ title' = titlesAfter(s, f).title
    /\ titleResult' = ThisChart
    /\ lastCall' = TitleCall("title", s, f)
    /\ UNCHANGED << baseVars, groupValues, stack, xScale, evadeDomainFilter, dataResult,
                    axisResult, hidableStacks, groupName >>

\* chart.title(s)
TitleOf(s) ==
    /\ titleResult' = titleOf(s)
    /\ lastCall' = TitleCall("titleOf", s, NoTitle)
    /\ UNCHANGED << baseVars, groupValues, stack, xScale, evadeDomainFilter, dataResult,
                    axisResult, hidableStacks, groupVars, title >>

\* chart.title()
TitleDefault ==
    /\ titleResult' = title
    /\ lastCall' = TitleCall("titleDefault", NoName, NoTitle)
    /\ UNCHANGED << baseVars, groupValues, stack, xScale, evadeDomainFilter, dataResult,
                    axisResult, hidableStacks, groupVars, title >>

\* chart.title(f)
TitleAll(f) ==
    /\ title' = f
    /\ titleResult' = ThisChart
    /\ lastCall' = TitleCall("titleAll", NoName, f)
    /\ UNCHANGED << baseVars, groupValues, stack, xScale, evadeDomainFilter, dataResult,
                    axisResult, hidableStacks, groupVars >>

\* The chart the stack mixin is mixed into: the first chart of the page.
StackChart == 1

\* chart.hidableStacks(flag)
HidableStacks(flag) ==
    /\ hidableStacks # flag
    /\ hidableStacks' = flag
    /\ lastCall' = StackCall("hidableStacks")
    /\ UNCHANGED << baseVars, groupValues, groupVars, stack, xScale, evadeDomainFilter, dataResult,
                    axisResult, title, titleResult >>

\* isLegendableHidden(d), d.name being n: layer ? layer.hidden : false
isLegendableHidden(st, n) ==
    LET i == findLayerByName(st, n, 1)
    IN  i # 0 /\ st[i].hidden = "true"

\* hideStack(n) and showStack(n) on the stack list st.
hideStack(st, n) ==
    LET i == findLayerByName(st, n, 1)
    IN  IF i = 0 THEN st ELSE [st EXCEPT ![i].hidden = "true"]

showStack(st, n) ==
    LET i == findLayerByName(st, n, 1)
    IN  IF i = 0 THEN st ELSE [st EXCEPT ![i].hidden = "false"]

\* The stack list after legendToggle(d) when stacks are hidable.
legendToggleHides(st, n) == hideStack(st, n)

legendToggle(st, n) ==
    IF isLegendableHidden(st, n) THEN showStack(st, n) ELSE hideStack(st, n)

\* What legendToggle asks of the chart's group when stacks are hidable:
\* this.renderGroup().
legendToggleRedraws(w) == redrawGroup(StackChart, w, {})

legendToggleRenders(w) == renderGroup(StackChart, w, {})

\* The indices of the layers of st whose hidden flag is true.
HiddenLayers(st) == {i \in 1..Len(st) : st[i].hidden = "true"}

\* A legend toggle of the entry named n, the hidden flags being before.
ToggleCall(n, before) ==
    [op |-> "legendToggle", chart |-> StackChart, arg |-> NullArg,
     grp |-> chartGroup[StackChart], name |-> n, before |-> before]

\* The drawing hook of chart c ran in the events lg.
Drew(lg, c) == \E k \in 1..Len(lg) : lg[k].chart = c /\ lg[k].ev = "doRender"

\* chart.legendToggle(d), d an entry of the legend named n. The render of
\* the group draws the stack chart; draws tells whether its drawing hook
\* pulls the data, as the hook of a concrete chart does.
LegendToggle(n, draws) ==
    /\ \E i \in 1..Len(stack) : stack[i].name = n
    /\ LET st == IF hidableStacks THEN legendToggle(stack, n) ELSE stack
           w == IF hidableStacks THEN legendToggleRenders(World) ELSE World
           r == dataCallback(st)
           pulls == draws /\ Drew(w.log, StackChart)
       IN  /\ stack' = IF pulls THEN r.stack ELSE st
           /\ dataResult' = IF pulls THEN r.result ELSE dataResult
           /\ log' = w.log
           /\ pending' = w.pending
           /\ called' = invocations(w.log)
    /\ lastCall' = ToggleCall(n, HiddenLayers(stack))
    /\ prev' = <<>>
    /\ fired' = <<>>
    /\ observed' = <<>>
    /\ handled' = <<>>
    /\ UNCHANGED <<filters, handler, dimension, dimFilter, controls, registryVars>>
    /\ UNCHANGED <<group, legend, renderlets, transitionDuration, svg>>
    /\ UNCHANGED <<anchor, raised, badRenderlets, listeners>>
    /\ UNCHANGED <<xScale, evadeDomainFilter, groupValues, auxVars, groupVars, orderVars, domVars>>

\* The y axis padding the page configures.
Paddings == {0, 1}

\* utils.add(l, r) and utils.subtract(l, r) on numbers.
utilsAdd(l, r) == l + r

utilsSubtract(l, r) == l - r

\* The larger and the smaller of two numbers.
Max2(a, b) == IF a >= b THEN a ELSE b

Min2(a, b) == IF a <= b THEN a ELSE b

\* The domainValues of layer l: its points that passed the domain filter.
RECURSIVE domainValuesFrom(_, _)
domainValuesFrom(l, k) ==
    IF k > Len(l.keep) THEN << >>
    ELSE << l.all[l.keep[k]] >> \o domainValuesFrom(l, k + 1)

\* _flattenStack over the list data() returned: the domainValues of its
\* layers, one after the other.
RECURSIVE flattenWholeStack(_, _, _)
flattenWholeStack(st, layers, p) ==
    IF p > Len(st) THEN << >>
    ELSE domainValuesFrom(st[p], 1) \o flattenWholeStack(st, layers, p + 1)

RECURSIVE flattenStack(_, _, _)
flattenStack(st, layers, p) ==
    IF p > Len(layers) THEN << >>
    ELSE domainValuesFrom(st[layers[p]], 1) \o flattenStack(st, layers, p + 1)

\* p => (p.y > 0) ? (p.y + p.y0) : p.y0
upperOfY1(p) == p.y1

upperOf(p) == IF p.y > 0 THEN p.y + p.y0 ELSE p.y0

\* p => (p.y < 0) ? (p.y + p.y0) : p.y0
lowerOf(p) == IF p.y < 0 THEN p.y + p.y0 ELSE p.y0

\* d3.max and d3.min of a non-empty list of points under upperOf and
\* lowerOf; a point whose y0 was never written gives NaN and is skipped.
RECURSIVE d3Max(_, _)
d3Max(ps, k) ==
    IF k = Len(ps) THEN upperOf(ps[k]) ELSE Max2(upperOf(ps[k]), d3Max(ps, k + 1))

RECURSIVE d3Min(_, _)
d3Min(ps, k) ==
    IF k = Len(ps) THEN lowerOf(ps[k]) ELSE Min2(lowerOf(ps[k]), d3Min(ps, k + 1))

IsStacked(p) == p.stacked

\* The value yAxisMax() or yAxisMin() returns from the list data()
\* returned: undefined widened by the padding is not a number.
extentOf(st, result, pad, upper) ==
    LET ps == SelectSeq(flattenStack(st, result.layers, 1), IsStacked)
    IN  IF result.threw
        THEN [defined |-> FALSE, threw |-> TRUE, value |-> 0, padding |-> pad]
        ELSE IF Len(ps) = 0
        THEN [defined |-> FALSE, threw |-> FALSE, value |-> 0, padding |-> pad]
        ELSE [defined |-> TRUE, threw |-> FALSE, padding |-> pad,
              value |-> IF upper THEN utilsAdd(d3Max(ps, 1), pad)
                        ELSE utilsSubtract(d3Min(ps, 1), pad)]

\* chart.yAxisPadding(pad).yAxisMax(): the extent is taken over a fresh
\* data pull.
YAxisMax(pad) ==
    /\ LET r == dataCallback(stack)
       IN  /\ stack' = r.stack
           /\ dataResult' = r.result
           /\ axisResult' = extentOf(r.stack, r.result, pad, TRUE)
    /\ lastCall' = StackCall("yAxisMax")
    /\ UNCHANGED << baseVars, groupValues, groupVars, title, titleResult, hidableStacks, xScale, evadeDomainFilter >>

\* chart.yAxisPadding(pad).yAxisMin()
YAxisMin(pad) ==
    /\ LET r == dataCallback(stack)
       IN  /\ stack' = r.stack
           /\ dataResult' = r.result
           /\ axisResult' = extentOf(r.stack, r.result, pad, FALSE)
    /\ lastCall' = StackCall("yAxisMin")
    /\ UNCHANGED << baseVars, groupValues, groupVars, title, titleResult, hidableStacks, xScale, evadeDomainFilter >>

StackNext ==
    \/ \E name \in ExplicitNames \cup {NoName} : Stack(name)
    \/ \E n \in ExplicitNames \cup IndexNames : HideStack(n)
    \/ \E n \in ExplicitNames \cup IndexNames : ShowStack(n)
    \/ Data

StackSpec == Init /\ [][StackNext]_vars

\* Unnamed layers over groups of which one has a negative value.
SignedGroups == {0, 1}

SignedNext ==
    \/ \E g \in SignedGroups : StackOf(g, NoName)
    \/ \E n \in IndexNames : HideStack(n)
    \/ \E n \in IndexNames : ShowStack(n)
    \/ Data

SignedSpec == Init /\ [][SignedNext]_vars

\* Titles of the stacks of a chart whose group has a name or none.
TitleNext ==
    \/ \E name \in ExplicitNames \cup {NoName} : StackGroup(name)
    \/ \E name \in ExplicitNames : Stack(name)
    \/ \E s \in TitleNames, f \in TitleFns : Title(s, f)
    \/ \E s \in TitleNames : TitleOf(s)
    \/ TitleDefault
    \/ \E f \in TitleFns : TitleAll(f)

TitleSpec == Init /\ [][TitleNext]_vars

\* Toggling the entries of the legend of the stack chart.
\* The page constructs and configures its charts before it stacks layers.
Building == stack = << >> /\ ~hidableStacks

\* A second chart joins the page, in the group of the stack chart or in
\* another one.
BuildChart(g) ==
    /\ Building
    /\ CreateChart(StackChart + 1, g)

\* The stack chart gets its dimension and group.
BuildOptions ==
    /\ Building
    /\ Options(StackChart)

ToggleNext ==
    \/ \E g \in GroupNames : BuildChart(g)
    \/ BuildOptions
    \/ \E flag \in BOOLEAN : HidableStacks(flag)
    \/ Stack(NoName)
    \/ Data
    \/ \E n \in IndexNames, draws \in BOOLEAN : LegendToggle(n, draws)

ToggleSpec == Init /\ [][ToggleNext]_vars

\* The y extent of unnamed layers over groups of either sign.
AxisGroups == {0, 1, 2}

AxisNext ==
    \/ \E g \in AxisGroups : StackOf(g, NoName)
    \/ \E n \in IndexNames : HideStack(n)
    \/ \E n \in IndexNames : ShowStack(n)
    \/ \E pad \in Paddings : YAxisMax(pad)
    \/ \E pad \in Paddings : YAxisMin(pad)

AxisSpec == Init /\ [][AxisNext]_vars

\* Unnamed layers under the x scales and the evadeDomainFilter flag.
DomainNext ==
    \/ \E scale \in Scales : X(scale)
    \/ \E flag \in BOOLEAN : EvadeDomainFilter(flag)
    \/ Stack(NoName)
    \/ HideStack("0")
    \/ ShowStack("0")
    \/ Data

DomainSpec == Init /\ [][DomainNext]_vars

\* Unnamed layers over groups that do not share their keys, with and
\* without an x scale that clips, and the upper y extent.
ShapeGroups == {1, 7, 8, 9}

ShapeScales == {NoScale, [kind |-> "linear", elastic |-> FALSE, domain |-> LinearDomain]}

ShapeNext ==
    \/ \E g \in ShapeGroups : StackOf(g, NoName)
    \/ \E scale \in ShapeScales : X(scale)
    \/ \E flag \in BOOLEAN : EvadeDomainFilter(flag)
    \/ Data
    \/ YAxisMax(0)

ShapeSpec == Init /\ [][ShapeNext]_vars

\* Unnamed layers that are hidden and shown while the groups change.
FreshGroups == {1, 7}

FreshNext ==
    \/ \E g \in FreshGroups : StackOf(g, NoName)
    \/ HideStack("0")
    \/ ShowStack("0")
    \/ GroupsChange
    \/ Data

FreshSpec == Init /\ [][FreshNext]_vars

(* ------------------------------------------------------------------ *)
(* Clicking an element of a chart                                      *)
(* ------------------------------------------------------------------ *)

\* The data bound to the elements the user clicks: group records whose
\* keys are numbers, strings and arrays.
ClickKeys == {N1, S1, ArrA}

ClickData == {[key |-> k, value |-> 1] : k \in ClickKeys}

\* _chart.filter(filter) has returned.
Filtered(c) == Ev(c, "filter", "")

\* Mutant of onClick: the group is redrawn, then the filter is toggled.
onClickRedrawsFirst(c, s, w, d, failing) ==
    [state |-> filter(c, s, ValueArg(keyAccessor(d))),
     world |-> Emit(redrawGroup(c, w, failing), Filtered(c))]

\* _chart.onClick(d): dc.events.trigger calls the closure at once, no
\* delay being given.
onClick(c, s, w, d, failing) ==
    [state |-> filter(c, s, ValueArg(keyAccessor(d))),
     world |-> redrawGroup(c, Emit(w, Filtered(c)), failing)]

\* The user clicks the element of chart c that datum d is bound to.
OnClick(c, d, failing) ==
    /\ c \in charts
    /\ \E r \in {onClick(c, ChartState(c), World, d, failing)} :
           /\ Len(r.state.filters) <= MaxFilters
           /\ filters' = [filters EXCEPT ![c] = r.state.filters]
           /\ dimFilter' = [dimFilter EXCEPT ![c] = r.state.dimFilter]
           /\ controls' = [controls EXCEPT ![c] = r.state.controls]
           /\ fired' = r.state.fired
           /\ observed' = r.state.observed
           /\ handled' = r.state.handled
           /\ log' = r.world.log
           /\ pending' = r.world.pending
           /\ called' = filteredCalls(c, r.state.fired) \o invocations(r.world.log)
    /\ prev' = filters[c]
    /\ lastCall' = Call("onClick", c, ValueArg(keyAccessor(d)))
    /\ UNCHANGED <<handler, dimension, registryVars>>
    /\ UNCHANGED <<group, legend, renderlets, transitionDuration, svg>>
    /\ UNCHANGED <<anchor, raised, badRenderlets, listeners>>
    /\ UNCHANGED <<stackVars, orderVars, domVars>>

\* Charts of the groups, with and without a dimension, that are clicked.
ClickNext ==
    \/ \E c \in ChartIds, g \in GroupNames : CreateChart(c, g)
    \/ \E c \in ChartIds, d \in BOOLEAN : Dimension(c, d)
    \/ \E c \in ChartIds, g \in GroupNames : FirstChart(c) /\ ChartGroup(c, g)
    \/ \E c \in ChartIds, d \in ClickData, failing \in Failings :
           FirstChart(c) /\ OnClick(c, d, failing)

ClickSpec == GroupInit /\ [][ClickNext]_vars

(* ------------------------------------------------------------------ *)
(* Properties of the filter set manager                                *)
(* ------------------------------------------------------------------ *)

\* f <= g && f >= g
SymEq(f, g) == JsLe(f, g) /\ JsGe(f, g)

\* Equality of the primitive values of a and b: the same text when both
\* convert to text, the same number (never NaN) otherwise.
SamePrimitive(a, b) ==
    IF IsStringPrim(a) /\ IsStringPrim(b) THEN StrOf(a) = StrOf(b)
    ELSE ~NumOf(a).nan /\ ~NumOf(b).nan /\ NumOf(a).n = NumOf(b).n

\* Indices of the stored filters symmetrically equal to v.
Matches(fl, v) == {i \in 1..Len(fl) : SymEq(fl[i], v)}

FilterOps == {"filter", "filterAll", "replaceFilter"}

\* The chart the last call was made on.
Called == lastCall.chart

\* C1 as stated: for every filter value v, filter(v) twice leaves the
\* ordered filter list as it was and hasFilter(v) in between is the
\* negation of its value before.  Stated for the default handler and for v
\* whose stored matches are v itself, so that only the order can differ.
C1_ToggleRestoresSequence ==
    \A c \in charts, v \in FilterValues :
        (handler[c] = "default" /\ \A i \in Matches(filters[c], v) : StrictEq(filters[c][i], v))
        => LET s0 == ChartState(c)
               s1 == filter(c, s0, ValueArg(v))
               s2 == filter(c, s1, ValueArg(v))
           IN  /\ s2.filters = s0.filters
               /\ hasFilter(s1.filters, v) = ~hasFilter(s0.filters, v)

\* C1 amended: with the default handler, filter(v) twice restores the
\* ordered list when v was absent (hasFilter(v) is true in between); when
\* exactly one stored filter equals v, that one is removed, hasFilter(v) is
\* false in between, and the second call appends v at the end.
C1_ToggleTwice ==
    \A c \in charts, v \in FilterValues :
        handler[c] = "default"
        => LET s0 == ChartState(c)
               s1 == filter(c, s0, ValueArg(v))
               s2 == filter(c, s1, ValueArg(v))
               m  == Matches(s0.filters, v)
           IN  /\ m = {} => (s2.filters = s0.filters /\ hasFilter(s1.filters, v))
               /\ Cardinality(m) = 1 =>
                     /\ ~hasFilter(s1.filters, v)
                     /\ s1.filters = Splice(s0.filters, CHOOSE i \in m : TRUE)
                     /\ s2.filters = Append(s1.filters, v)

\* The second of two filter(1) calls has run on a list that held 2 first.
C1_Witness ==
    /\ lastCall = Call("filter", 1, ValueArg(N1))
    /\ handler[1] = "default"
    /\ prev = <<N2, N1>>
    /\ filters[1] = <<N2>>

\* C2: from any reachable filter list, filter(null) and filterAll() leave
\* the list empty (hasFilter() false, filter() null) and invoke the
\* 'filtered' listener once, with null.
C2_ResetClears ==
    /\ \A c \in charts :
          \A s \in {filter(c, ChartState(c), NullArg), filterAll(c, ChartState(c))} :
              /\ s.filters = <<>>
              /\ ~hasAnyFilter(s.filters)
              /\ filterGet(s.filters) = NullArg
              /\ s.fired = <<NullArg>>
    /\ (lastCall.op \in {"filter", "filterAll"} /\ lastCall.arg = NullArg)
          => (filters[Called] = <<>> /\ fired = <<NullArg>>)

\* filterAll() has run on a chart that held two filters.
C2_Witness ==
    /\ lastCall.op = "filterAll"
    /\ Len(prev) = 2
    /\ filters[Called] = <<>>
    /\ fired = <<NullArg>>

\* No two elements of the inner array are symmetrically equal.
DistinctInner(ds) == \A i, j \in 1..Len(ds) : i # j => ~SymEq(ds[i], ds[j])

\* C3: the bulk form filter([[a1..an]]) leaves exactly the values that were
\* in exactly one of the prior filter list and the inner array, membership
\* being the symmetric comparison of hasFilter.
C3_BulkSymmetricDifference ==
    (/\ lastCall.op = "filter"
     /\ lastCall.arg.form = "bulk"
     /\ DistinctInner(lastCall.arg.inner)
     /\ handler[Called] = "default")
    => \A x \in FilterValues :
          hasFilter(filters[Called], x)
            = (hasFilter(prev, x) # hasFilter(lastCall.arg.inner, x))

\* C4: with the default handler the filter list never holds two entries
\* that are symmetrically equal to each other.
C4_NoDuplicates ==
    \A c \in charts :
        handler[c] = "default"
        => \A i, j \in 1..Len(filters[c]) :
              i # j => ~SymEq(filters[c][i], filters[c][j])

\* filter("1") has run on a list holding the number 1: the stored 1 went.
C4_Witness ==
    /\ lastCall = Call("filter", 1, ValueArg(S1))
    /\ handler[1] = "default"
    /\ prev = <<N1, N2>>
    /\ filters[1] = <<N2>>

\* C5: every filter(x) call that changes the filter list invokes the
\* 'filtered' listener exactly once, with x (null for a reset).
C5_MutationNotifiesOnce ==
    (lastCall.op = "filter" /\ filters[Called] # prev)
    => fired = <<lastCall.arg>>

\* Scalars: numbers and strings.
Scalars == {v \in FilterValues : v.t \in {"number", "string"}}

\* C6: replaceFilter(v) with a scalar v leaves exactly [v] whatever the
\* list held, invokes the 'filtered' listener once, with v, and hands the
\* list [v] once to the filter handler, which applies it to the dimension.
C6_ReplaceLeavesOne ==
    (/\ lastCall.op = "replaceFilter"
     /\ lastCall.arg.form = "value"
     /\ lastCall.arg.v \in Scalars
     /\ handler[Called] = "default")
    => /\ filters[Called] = <<lastCall.arg.v>>
       /\ fired = <<lastCall.arg>>
       /\ dimension[Called] =>
             (handled = << <<lastCall.arg.v>> >> /\ dimFilter[Called] = <<lastCall.arg.v>>)

\* replaceFilter(1) has run on a bound chart whose list held 1 and 2.
C6_Witness ==
    /\ lastCall = Call("replaceFilter", 1, ValueArg(N1))
    /\ handler[1] = "default"
    /\ dimension[1]
    /\ prev = <<N1, N2>>
    /\ filters[1] = <<N1>>

\* C7: with a handler that returns a list and a dimension bound, after
\* every filter call the filter list is the list the handler returned for
\* the list it was handed.
C7_ReturnedListKept ==
    (/\ lastCall.op \in FilterOps
     /\ dimension[Called]
     /\ handlerReturn(handler[Called], <<>>).truthy)
    => /\ Len(handled) = 1
       /\ filters[Called] = handlerReturn(handler[Called], handled[1]).list

\* A handler that keeps the last filter only was handed [1, 2] and returned [2].
C7_Witness ==
    /\ lastCall = Call("filter", 1, ValueArg(N2))
    /\ handler[1] = "single"
    /\ dimension[1]
    /\ handled = << <<N1, N2>> >>
    /\ filters[1] = <<N2>>

\* C8 as stated: hasFilter(v) is true exactly when a stored filter is
\* symmetrically equal to v or exposes isFiltered and accepts v.
C8_HasFilterOrIsFiltered ==
    \A c \in charts, v \in Values :
        hasFilter(filters[c], v)
          = \E i \in 1..Len(filters[c]) :
                SymEq(v, filters[c][i]) \/ isFiltered(filters[c][i], v)

\* C8 amended: hasFilter(v) is true exactly when a stored filter has the
\* same primitive value as v (isFiltered is not consulted), and hasFilter()
\* exactly when the list is not empty, which is when filter() is not null.
C8_HasFilterIsEquality ==
    \A c \in charts :
        /\ \A v \in Values :
              hasFilter(filters[c], v)
                = \E i \in 1..Len(filters[c]) : SamePrimitive(v, filters[c][i])
        /\ hasAnyFilter(filters[c]) = (filters[c] # <<>>)
        /\ hasAnyFilter(filters[c]) = (filterGet(filters[c]) # NullArg)

\* A ranged filter accepting 1 is stored and hasFilter(1) is false.
C8_Witness ==
    /\ filters[1] = <<Ranged>>
    /\ isFiltered(Ranged, N1)
    /\ ~hasFilter(filters[1], N1)

(* ------------------------------------------------------------------ *)
(* Properties of the chart group registry                              *)
(* ------------------------------------------------------------------ *)

RECURSIVE ChartsOf(_, _)
\* The charts of the events named e in lg, in order.
ChartsOf(lg, e) ==
    IF lg = <<>> THEN <<>>
    ELSE (IF Head(lg).ev = e THEN <<Head(lg).chart>> ELSE <<>>) \o ChartsOf(Tail(lg), e)

RenderOps == {"renderAll", "renderGroup"}

RedrawOps == {"redrawAll", "redrawGroup"}

\* Chart c raised an error during the last call.
Threw(c) == \E i \in 1..Len(log) : log[i].chart = c /\ log[i].ev = "error"

Has(c, e) == \E i \in 1..Len(log) : log[i].chart = c /\ log[i].ev = e

C10_LaterChartsDrawn ==
    lastCall.op \in RenderOps \cup RedrawOps =>
        LET cs == registry[lastCall.grp]
            pre == IF lastCall.op \in RenderOps THEN "preRender" ELSE "preRedraw"
            draw == IF lastCall.op \in RenderOps THEN "doRender" ELSE "doRedraw"
            post == IF lastCall.op \in RenderOps THEN "postRender" ELSE "postRedraw"
        IN  \A i, j \in 1..Len(cs) :
                (i < j /\ Threw(cs[i])) =>
                    /\ Has(cs[j], pre)
                    /\ ~Threw(cs[j]) => (Has(cs[j], draw) /\ Has(cs[j], post))

\* A group operation leaves the filter sets, dimensions, groups and
\* registry of all charts as they were.
C10_StateKept ==
    lastCall'.op \in RenderOps \cup RedrawOps =>
        UNCHANGED <<filters, dimFilter, controls, handler, dimension, group, registry, chartGroup>>

\* C10: an error of one chart's render()/redraw() during renderAll /
\* redrawAll does not keep the charts registered after it from being
\* rendered/redrawn, and leaves the charts' filter sets and state unchanged.
C10_ErrorIsolated == []C10_LaterChartsDrawn /\ [][C10_StateKept]_vars

\* renderAll has run on a group of two: the first chart holds a filter,
\* lacks its dimension and threw, the second was rendered.
C10_Witness ==
    /\ lastCall.op = "renderAll"
    /\ registry[lastCall.grp] = <<1, 2>>
    /\ \E i \in 1..Len(log) : log[i] = Ev(1, "error", "dimension")
    /\ filters[1] = <<N1>>
    /\ Has(2, "postRender")

(* ------------------------------------------------------------------ *)
(* Properties of group membership                                      *)
(* ------------------------------------------------------------------ *)

\* How often chart c is registered in bucket g.
Registered(c, g) == Cardinality({i \in 1..Len(registry[g]) : registry[g][i] = c})

\* C11: after any sequence of anchor(a, group) and chartGroup(group) calls a
\* chart is a member of exactly one registry bucket, the one chartGroup()
\* names, so that redrawGroup()/renderGroup() on the chart redraws/renders a
\* group that contains the chart itself.
C11_OneBucketNamedByChartGroup ==
    /\ \A c \in charts : \A g \in GroupNames :
            Registered(c, g) = (IF g = chartGroup[c] THEN 1 ELSE 0)
    /\ lastCall.op \in {"renderGroup", "redrawGroup"} =>
            (Has(lastCall.chart, "preRender") \/ Has(lastCall.chart, "preRedraw"))

(* ------------------------------------------------------------------ *)
(* Properties of the render / redraw lifecycle                         *)
(* ------------------------------------------------------------------ *)

RECURSIVE RenderletSeq(_, _, _)
\* The invocations of renderlets i..n of chart c, in registration order.
RenderletSeq(c, i, n) ==
    IF i > n THEN <<>> ELSE <<RenderletEv(c, i)>> \o RenderletSeq(c, i + 1, n)

LegendSeq(c) == IF legend[c] THEN <<Ev(c, "legend", "")>> ELSE <<>>

\* The renderlets of chart c and then its event e.
FinishSeq(c, e) == RenderletSeq(c, 1, renderlets[c]) \o <<Ev(c, e, "")>>

\* The call ran the renderlets itself; otherwise it left them to the end of
\* a transition.
Synchronous(c) == ~(transitionDuration[c] > 0 /\ svg[c])

PostEvents == {"postRender", "postRedraw"}

\* A render that returned: the events of the call.
C12_InCall ==
    (lastCall.op = "render" /\ raised = NoException) =>
        LET c == lastCall.chart
            drawn == <<Ev(c, "preRender", ""), Ev(c, "validate", ""), Ev(c, "doRender", "")>>
                        \o LegendSeq(c)
        IN  IF Synchronous(c) THEN log = drawn \o FinishSeq(c, "postRender")
            ELSE log = drawn

\* A render that left the renderlets to the transition schedules them once,
\* and the end of a transition runs the renderlets and then the event.
C12_AtTransitionEnd ==
    /\ (lastCall'.op = "render" /\ raised' = NoException) =>
            LET c == lastCall'.chart
            IN  pending'[c] = IF Synchronous(c) THEN pending[c]
                              ELSE Append(pending[c], "postRender")
    /\ (lastCall'.op = "transitionEnd" /\ raised' = NoException) =>
            LET c == lastCall'.chart
            IN  \E i \in 1..Len(pending[c]) :
                    /\ pending'[c] = Splice(pending[c], i)
                    /\ log' = FinishSeq(c, pending[c][i])

\* C12: in every successful render() the events occur in this order, each
\* exactly once: the preRender listener, the mandatory-attribute validation,
\* the full-draw hook, the legend's render if a legend is attached, all
\* registered renderlets, then the postRender listener; postRender never
\* fires before the last renderlet has run.
C12_RenderOrder == []C12_InCall /\ [][C12_AtTransitionEnd]_vars

C12_Witness ==
    /\ lastCall.op = "render"
    /\ raised = NoException
    /\ legend[1]
    /\ renderlets[1] = 2
    /\ Len(log) = 7
    /\ log[7] = Ev(1, "postRender", "")

\* The first of dimension and group that chart c lacks.
FirstMissing(c) ==
    IF ~dimension[c] THEN "dimension" ELSE IF ~group[c] THEN "group" ELSE "none"

\* The name of the place chart c is anchored to: "#c1" gives c1, an element
\* its id.
ExpectedAnchorName(c) ==
    IF anchor[c] = ParentOf(c) THEN <<"c", ToString(c)>> ELSE anchor[c].text

\* C13: render() on a chart for which a mandatory attribute (dimension,
\* group) is absent or falsy raises an invalid-state error naming that
\* attribute and the chart's anchor name, and in that call neither the
\* full-draw hook nor the legend's render nor a renderlet nor the postRender
\* listener is invoked; when every mandatory attribute is truthy no such
\* error is raised.
C13_MissingAttributeRaises ==
    lastCall.op = "render" =>
        LET c == lastCall.chart
        IN  IF FirstMissing(c) # "none"
            THEN /\ raised = [type |-> "InvalidStateException",
                              attribute |-> FirstMissing(c),
                              anchorName |-> ExpectedAnchorName(c)]
                 /\ \A i \in 1..Len(log) :
                        log[i].ev \notin {"doRender", "legend", "renderlet", "postRender"}
            ELSE raised.type # "InvalidStateException"

C13_Witness ==
    /\ lastCall.op = "render"
    /\ dimension[1] /\ ~group[1]
    /\ legend[1] /\ renderlets[1] > 0
    /\ raised.attribute = "group"
    /\ raised.anchorName = <<"c", "1">>

\* C14: redraw() performs the same sequence as render() with preRedraw and
\* postRedraw in place of preRender and postRender, except that it never
\* validates the mandatory attributes (it raises no invalid-state error even
\* when dimension or group is missing) and calls the incremental-draw hook
\* and never the full-draw hook.
C14_RedrawLikeRender ==
    lastCall.op = "redraw" =>
        LET c == lastCall.chart
            drawn == <<Ev(c, "preRedraw", ""), Ev(c, "doRedraw", "")>> \o LegendSeq(c)
        IN  /\ raised.type # "InvalidStateException"
            /\ \A i \in 1..Len(log) : log[i].ev \notin {"validate", "doRender"}
            /\ raised = NoException =>
                    IF Synchronous(c) THEN log = drawn \o FinishSeq(c, "postRedraw")
                    ELSE /\ log = drawn
                         /\ pending[c] # <<>>
                         /\ pending[c][Len(pending[c])] = "postRedraw"

C14_Witness ==
    /\ lastCall.op = "redraw"
    /\ ~dimension[1] /\ ~group[1]
    /\ legend[1]
    /\ renderlets[1] = 2
    /\ log = <<Ev(1, "preRedraw", ""), Ev(1, "doRedraw", ""), Ev(1, "legend", ""),
               RenderletEv(1, 1), RenderletEv(1, 2), Ev(1, "postRedraw", "")>>

\* Renderlets or a post event ran inside the last call.
RanInCall(c) == \E i \in 1..Len(log) : log[i].ev \in {"renderlet"} \cup PostEvents

\* The last call was a render or redraw that returned.
Returned == lastCall.op \in {"render", "redraw"} /\ raised = NoException

\* C15: whenever a positive transition duration is configured on the chart,
\* the renderlets and the post event of a render()/redraw() run only after
\* the visual transition has completed, never inside the call; with a zero
\* duration they run synchronously before the call returns.
C15_PositiveDurationDefers ==
    Returned =>
        LET c == lastCall.chart
        IN  IF transitionDuration[c] > 0 THEN ~RanInCall(c)
            ELSE log[Len(log)].ev \in PostEvents

\* C15 as the code has it: they are left to the end of the transition when
\* the duration is positive and the chart has an svg element; with a zero
\* duration, or without an svg element, they run before the call returns.
C15_DefersWithSvg ==
    Returned =>
        LET c == lastCall.chart
        IN  IF transitionDuration[c] > 0 /\ svg[c]
            THEN /\ ~RanInCall(c)
                 /\ pending[c] # <<>>
                 /\ pending[c][Len(pending[c])] \in PostEvents
            ELSE /\ log[Len(log)].ev \in PostEvents
                 /\ \A i \in 1..renderlets[c] : \E j \in 1..Len(log) : log[j] = RenderletEv(c, i)

C15_Witness ==
    /\ Returned
    /\ transitionDuration[1] > 0
    /\ svg[1]
    /\ renderlets[1] > 0
    /\ pending[1] = <<"postRender">>
    /\ ~RanInCall(1)

\* The renderlet invocations of the last call, in order.
Invoked == SelectSeq(log, LAMBDA e : e.ev = "renderlet")

\* C16: the renderlet list is append-only, and every render()/redraw() that
\* reaches renderlet execution invokes each registered renderlet exactly
\* once with the chart, in registration order.
C16_EachRenderletOnce ==
    (lastCall.op \in {"render", "redraw", "transitionEnd"} /\ Invoked # <<>>) =>
        Invoked = RenderletSeq(lastCall.chart, 1, renderlets[lastCall.chart])

\* C17: an exception thrown by one renderlet is isolated to that callback:
\* the renderlets registered after it are still invoked and the lifecycle
\* still fires its post event for that render()/redraw().
C17_RenderletErrorIsolated ==
    (lastCall.op \in {"render", "redraw", "transitionEnd"}
        /\ \E i \in 1..Len(log) : log[i] = Ev(lastCall.chart, "error", "renderlet")) =>
        /\ \A i \in 1..renderlets[lastCall.chart] :
                \E j \in 1..Len(log) : log[j] = RenderletEv(lastCall.chart, i)
        /\ \E j \in 1..Len(log) : log[j].ev \in PostEvents

(* ------------------------------------------------------------------ *)
(* Properties of the listener table                                    *)
(* ------------------------------------------------------------------ *)

RECURSIVE FnsOf(_)
\* The callbacks of the subscribers ls, in order.
FnsOf(ls) == IF ls = <<>> THEN <<>> ELSE <<Head(ls).on>> \o FnsOf(Tail(ls))

RECURSIVE CalledFor(_, _)
\* The callbacks that the calls cs invoked for hook h, in order.
CalledFor(cs, h) ==
    IF cs = <<>> THEN <<>>
    ELSE (IF Head(cs).hook = h THEN <<Head(cs).fn>> ELSE <<>>) \o CalledFor(Tail(cs), h)

\* Hook h fired during the last call.
HookFired(h) ==
    \/ \E i \in 1..Len(log) : log[i].ev = h
    \/ h = "filtered" /\ fired # <<>>

FiringOps == {"render", "redraw", "filterAll", "zoomed"}

\* When a hook fires every subscriber it holds is invoked in the order of
\* the list, and no subscriber of a hook that did not fire is invoked.
C18_Fires ==
    lastCall.op \in FiringOps =>
        \A h \in Hooks :
            CalledFor(called, h) =
                IF HookFired(h) THEN FnsOf(listeners[lastCall.chart][h]) ELSE <<>>

\* on(event, f) appends the subscriber to those the hook already had.
C18_OnAppends ==
    lastCall'.op = "on" =>
        LET c == lastCall'.chart
            h == lastCall'.grp
        IN  /\ Len(listeners'[c][h]) = Len(listeners[c][h]) + 1
            /\ SubSeq(listeners'[c][h], 1, Len(listeners[c][h])) = listeners[c][h]

\* C18: for each of the six hooks, several subscribers registered by
\* repeated on(event, fn) calls are all retained, and when the hook fires
\* every one of them is invoked synchronously, in the order they were
\* subscribed.
C18_AllSubscribersKept == []C18_Fires /\ [][C18_OnAppends]_vars

\* A hook holds one subscriber for each name.
C18_OnePerName ==
    \A c \in charts : \A h \in Hooks :
        \A i, j \in 1..Len(listeners[c][h]) :
            listeners[c][h][i].name = listeners[c][h][j].name => i = j

\* on(event, f) puts the subscriber last, removes the one that had its
\* name, and keeps the others in their order.
C18_OnReplacesSameName ==
    lastCall'.op = "on" =>
        LET c == lastCall'.chart
            h == lastCall'.grp
            new == listeners'[c][h][Len(listeners'[c][h])]
        IN  /\ listeners'[c][h] # <<>>
            /\ SubSeq(listeners'[c][h], 1, Len(listeners'[c][h]) - 1) =
                    SelectSeq(listeners[c][h], LAMBDA l : l.name # new.name)
            /\ \A g \in Hooks \ {h} : listeners'[c][g] = listeners[c][g]

\* C18 as the code has it: subscribers registered under different names are
\* all retained and invoked in subscription order when the hook fires; a
\* subscriber registered under a name in use replaces the earlier one.
C18_DistinctNamesKept ==
    /\ []C18_Fires
    /\ []C18_OnePerName
    /\ [][C18_OnReplacesSameName]_vars

C18_Witness ==
    /\ lastCall.op = "render"
    /\ listeners[1]["postRender"] = <<Subscriber("", "f2"), Subscriber("a", "f1")>>
    /\ called = <<[hook |-> "postRender", fn |-> "f2"], [hook |-> "postRender", fn |-> "f1"]>>

(* ------------------------------------------------------------------ *)
(* Properties of the stack mixin                                       *)
(* ------------------------------------------------------------------ *)

\* data() has just returned a list of layers.
Pulled == lastCall.op = "data" /\ dataResult.pulled /\ ~dataResult.threw

\* The p-th layer of the list data() returned.
ResultLayer(p) == stack[dataResult.layers[p]]

\* The sum at record j of the values of the groups of the first p layers
\* of the list data() returned.
RECURSIVE Stacked(_, _)
Stacked(p, j) ==
    IF p = 0 THEN 0
    ELSE Stacked(p - 1, j) + valueAccessor(groupAll(ResultLayer(p).group)[j])

\* The list data() returned holds the layers whose hidden flag is not
\* true and no other, in stack-list order.
C19_VisibleInOrder ==
    /\ \A p \in 1..Len(dataResult.layers) :
           /\ dataResult.layers[p] \in 1..Len(stack)
           /\ ResultLayer(p).hidden # "true"
           /\ p > 1 => dataResult.layers[p - 1] < dataResult.layers[p]
    /\ \A i \in 1..Len(stack) :
           stack[i].hidden # "true" =>
               \E p \in 1..Len(dataResult.layers) : dataResult.layers[p] = i

\* No layer of the list has the name of a layer that is hidden.
C19_HiddenAbsent ==
    \A i \in 1..Len(stack), p \in 1..Len(dataResult.layers) :
        stack[i].hidden = "true" => ResultLayer(p).name # stack[i].name

\* Each layer of the list is stacked on the visible layers before it, as
\* if the hidden ones were not in the stack list.
C19_StackedWithoutHidden ==
    \A p \in 1..Len(dataResult.layers) :
        \A j \in 1..NumValues(ResultLayer(p)) :
            /\ ValueAt(ResultLayer(p), j).stacked
            /\ ValueAt(ResultLayer(p), j).y0 = Stacked(p - 1, j)
            /\ ValueAt(ResultLayer(p), j).y1 = Stacked(p, j)

\* C19: data() returns exactly the layers of the stack list whose hidden
\* flag is not true, in stack-list order, and an empty list when none is
\* visible; after hideStack(n) the layer n is absent from the result and
\* the y0/y1 of the remaining layers are those of stacking the stack list
\* without layer n.
C19_DataReturnsVisibleLayers ==
    Pulled => /\ C19_VisibleInOrder
              /\ C19_HiddenAbsent
              /\ C19_StackedWithoutHidden

\* C20: with the default stacking function and non-negative values, at
\* every key index the first visible layer has y0 = 0 and y1 = y, every
\* later visible layer has y0 equal to the y1 of the visible layer before
\* it and y1 = y0 + y, and the pair is written onto the layer's point.
C20_DefaultStacking ==
    Pulled =>
        \A p \in 1..Len(dataResult.layers) :
            \A j \in 1..NumValues(ResultLayer(p)) :
                LET pt == ValueAt(ResultLayer(p), j)
                IN  /\ pt.stacked
                    /\ pt.y >= 0
                    /\ pt.y0 = IF p = 1 THEN 0 ELSE ValueAt(ResultLayer(p - 1), j).y1
                    /\ pt.y1 = pt.y0 + pt.y

\* The sum at record j of the values of sign sgn (1 or -1) of the groups
\* of the first p layers of the list data() returned.
RECURSIVE StackedOfSign(_, _, _)
StackedOfSign(p, j, sgn) ==
    IF p = 0 THEN 0
    ELSE LET y == valueAccessor(groupAll(ResultLayer(p).group)[j])
         IN  StackedOfSign(p - 1, j, sgn) + (IF y * sgn > 0 THEN y ELSE 0)

\* C21: with the default stacking function and layers of mixed sign, at
\* each key a positive value is placed upward from the top of the
\* preceding positive stack and a negative value downward from the bottom
\* of the preceding negative stack.
C21_DivergingStack ==
    Pulled =>
        \A p \in 1..Len(dataResult.layers) :
            \A j \in 1..NumValues(ResultLayer(p)) :
                LET pt == ValueAt(ResultLayer(p), j)
                IN  /\ pt.y > 0 => pt.y0 = StackedOfSign(p - 1, j, 1)
                    /\ pt.y < 0 => pt.y0 = StackedOfSign(p - 1, j, -1)

\* C21 amended: whatever the signs, the first visible layer starts from 0
\* and every later visible layer starts from the y1 of the visible layer
\* before it, and every point of the list has its pair written.
C21_AccumulatesInListOrder ==
    Pulled =>
        \A p \in 1..Len(dataResult.layers) :
            \A j \in 1..NumValues(ResultLayer(p)) :
                LET pt == ValueAt(ResultLayer(p), j)
                IN  /\ pt.stacked
                    /\ pt.y0 = IF p = 1 THEN 0 ELSE ValueAt(ResultLayer(p - 1), j).y1

\* A negative value was placed from the top of a positive one below it.
C21_Witness ==
    /\ Pulled
    /\ Len(dataResult.layers) = 2
    /\ ValueAt(ResultLayer(1), 1).y > 0
    /\ ValueAt(ResultLayer(2), 1).y < 0
    /\ ValueAt(ResultLayer(2), 1).y0 = ValueAt(ResultLayer(1), 1).y1
    /\ ValueAt(ResultLayer(2), 1).y0 > 0

\* yAxisMax() or yAxisMin() has just returned a number.
Measured(op) == lastCall.op = op /\ axisResult.defined /\ ~axisResult.threw

\* The points of the layers whose hidden flag is not true that are within
\* the domain of the x scale.
VisiblePoints ==
    UNION { { stack[i].all[stack[i].keep[k]] : k \in 1..Len(stack[i].keep) } :
            i \in {i \in 1..Len(stack) : stack[i].hidden # "true"} }

\* Every value of a visible layer is non-negative.
NonNegative == \A pt \in VisiblePoints : pt.y >= 0

\* The records of the visible layers, by index.
Rows == 1..NumValues(ResultLayer(1))

\* yAxisMax() is the largest y + y0 (y0 where y is not positive) of the
\* points of the visible layers, plus the padding: for non-negative data
\* the largest top of the stack, plus the padding.
C22_Max ==
    Measured("yAxisMax") =>
        /\ \E pt \in VisiblePoints :
               axisResult.value = upperOf(pt) + axisResult.padding
        /\ \A pt \in VisiblePoints :
               axisResult.value >= upperOf(pt) + axisResult.padding
        /\ NonNegative =>
               /\ \E j \in Rows :
                      axisResult.value =
                          Stacked(Len(dataResult.layers), j) + axisResult.padding
               /\ \A j \in Rows :
                      axisResult.value >=
                          Stacked(Len(dataResult.layers), j) + axisResult.padding

\* yAxisMin() is the smallest y + y0 (y0 where y is not negative) of the
\* same points, minus the padding: for non-negative data 0 minus the
\* padding.
C22_Min ==
    Measured("yAxisMin") =>
        /\ \E pt \in VisiblePoints :
               axisResult.value = lowerOf(pt) - axisResult.padding
        /\ \A pt \in VisiblePoints :
               axisResult.value <= lowerOf(pt) - axisResult.padding
        /\ NonNegative => axisResult.value = 0 - axisResult.padding

\* C22: yAxisMax() is the maximum over the domain-filtered points of the
\* visible layers of (y + y0 when y > 0, else y0) plus the y padding and
\* yAxisMin() the minimum of the lower bounds minus the padding; for
\* non-negative data these are the largest top of the stack plus the
\* padding and 0 minus the padding; hidden layers have no influence.
C22_YAxisExtent == C22_Max /\ C22_Min

\* C23: the explicitly supplied names being pairwise distinct, every layer
\* that has been through a data pull has a name, the name of an unnamed
\* layer is the text of its position in the stack list, and the names of
\* the layers of the stack list are pairwise distinct.
C23_NamesPositionalAndDistinct ==
    /\ \A i \in 1..Len(stack) : stack[i].prepared => stack[i].name # NoName
    /\ \A i \in 1..Len(stack) :
           stack[i].name \in IndexNames => stack[i].name = ToString(i - 1)
    /\ \A i, k \in 1..Len(stack) :
           (i # k /\ stack[i].name # NoName) => stack[i].name # stack[k].name

\* title(s, f) followed by title(s) returns f.
C24_SetThenGet ==
    (lastCall.op = "title" /\ lastCall'.op = "titleOf" /\ lastCall'.name = lastCall.name)
        => titleResult' = lastCall.fn

\* title() returns the chart-wide title function, and so does title(s)
\* for a stack that has no title of its own.
C24_Default ==
    /\ lastCall.op = "titleDefault" => titleResult = title
    /\ (lastCall.op = "titleOf" /\ titles[lastCall.name] = NoTitle)
           => titleResult = title

\* C24: title(s, f) followed by title(s) returns exactly f; title() with
\* no argument returns the chart-wide default title function, and so does
\* title(s) for a stack with no custom title.
C24_TitleRoundTrip == []C24_Default /\ [][C24_SetThenGet]_vars

\* The title of the stack named as the group was set and read back.
C24_Witness ==
    /\ lastCall.op = "titleOf"
    /\ lastCall.name = groupName
    /\ titleResult \in TitleFns
    /\ titles[lastCall.name] = NoTitle

\* The layers whose hidden flag a step changes between true and not true.
Flipped == (HiddenLayers(stack) \ HiddenLayers(stack')) \cup
           (HiddenLayers(stack') \ HiddenLayers(stack))

\* How many events e of chart c the events lg hold.
CountEv(lg, c, e) ==
    Cardinality({k \in 1..Len(lg) : lg[k].chart = c /\ lg[k].ev = e})

\* The charts registered in group g.
Members(g) == {registry[g][k] : k \in 1..Len(registry[g])}

\* A legend toggle flips the flag of one layer named d.name and renders
\* every chart of the group once when stacks are hidable, and does
\* nothing when they are not.
C25_Toggle ==
    lastCall'.op = "legendToggle" =>
        IF hidableStacks
        THEN /\ Len(stack') = Len(stack)
             /\ Cardinality(Flipped) = 1
             /\ \A i \in Flipped : stack[i].name = lastCall'.name
             /\ \A c \in ChartIds :
                    /\ CountEv(log', c, "preRender") =
                           (IF c \in Members(chartGroup[StackChart]) THEN 1 ELSE 0)
                    /\ CountEv(log', c, "preRedraw") = 0
        ELSE /\ stack' = stack
             /\ log' = << >>

\* Two successive toggles of one entry restore the hidden flags.
C25_TwiceRestores ==
    (/\ lastCall.op = "legendToggle"
     /\ lastCall'.op = "legendToggle"
     /\ lastCall'.name = lastCall.name)
        => HiddenLayers(stack') = lastCall.before

WithHidden(st, n, h, i) ==
    IF st[i].name = n THEN [st[i] EXCEPT !.hidden = h] ELSE st[i]

\* hideStack(n) and showStack(n) set the flag of every layer named n and
\* change nothing else.
C26_SetsEveryLayerOfName ==
    /\ lastCall'.op = "hideStack" =>
           /\ Len(stack') = Len(stack)
           /\ \A i \in 1..Len(stack) :
                  stack'[i] = WithHidden(stack, lastCall'.name, "true", i)
    /\ lastCall'.op = "showStack" =>
           /\ Len(stack') = Len(stack)
           /\ \A i \in 1..Len(stack) :
                  stack'[i] = WithHidden(stack, lastCall'.name, "false", i)

\* A second hideStack(n) or showStack(n) changes nothing.
C26_Idempotent ==
    (/\ lastCall.op \in {"hideStack", "showStack"}
     /\ lastCall'.op = lastCall.op
     /\ lastCall'.name = lastCall.name) => stack' = stack

\* C26: hideStack(name) sets hidden = true on every layer of the stack
\* list of that name and showStack(name) sets hidden = false on every
\* such layer; a name matching no layer changes nothing; both are
\* idempotent and leave the flags of all other layers unchanged.
C26_HideShowFrame == [][C26_SetsEveryLayerOfName /\ C26_Idempotent]_vars

\* How often record r occurs in the array a.
Occurrences(a, r) == Cardinality({k \in 1..Len(a) : a[k] = r})

\* C27: _computeOrderedGroups(data) returns a permutation of data sorted
\* ascending by the ordering accessor configured at the call, also after
\* ordering(o) replaced it; the argument is not modified, and an array of
\* length 0 or 1 comes back with the same elements.
C27_OrderedPermutation ==
    orderResult.called =>
        /\ \A r \in OrderRecords :
               Occurrences(orderResult.result, r) = Occurrences(orderResult.input, r)
        /\ Len(orderResult.result) = Len(orderResult.input)
        /\ \A k \in 1..(Len(orderResult.result) - 1) :
               pluck(orderResult.by, orderResult.result[k])
                   <= pluck(orderResult.by, orderResult.result[k + 1])
        /\ orderResult.data = orderResult.input
        /\ Len(orderResult.input) <= 1 => orderResult.result = orderResult.input

\* An array out of order was sorted by an accessor set after an earlier
\* sort by the other one.
C27_Witness ==
    /\ orderResult.called
    /\ orderResult.by = "value"
    /\ orderSort = "value"
    /\ lastCall.op = "computeOrderedGroups"
    /\ Len(orderResult.input) = 3
    /\ orderResult.result # orderResult.input

\* Some stored filter of chart c matches datum d: f.isFiltered(d), or
\* f <= d && f >= d.
SomeFilterMatches(c, d) ==
    \E i \in 1..Len(filters[c]) :
        \/ isFiltered(filters[c][i], d)
        \/ (JsLe(filters[c][i], d) /\ JsGe(filters[c][i], d))

\* C28: with the default filter handler and a dimension bound, after every
\* filter(...) / filterAll() / replaceFilter(...) call the predicate active
\* on the dimension accepts a datum exactly when some stored filter
\* matches it, and the dimension's filter is cleared, so that every datum
\* is accepted, when the filter set is empty.
C28_DimensionFollowsFilters ==
    (/\ lastCall.op \in FilterOps
     /\ handler[Called] = "default"
     /\ dimension[Called])
        => IF filters[Called] = << >>
           THEN dimFilter[Called] = << >>
           ELSE /\ dimFilter[Called] # << >>
                /\ \A d \in FilterValues :
                       dimensionAccepts(dimFilter[Called], d) <=> SomeFilterMatches(Called, d)

\* A second filter was added to a chart with a dimension, and one was
\* removed from it.
C28_Witness ==
    /\ lastCall.op = "filter"
    /\ handler[Called] = "default"
    /\ dimension[Called]
    /\ Len(filters[Called]) = 1
    /\ Len(prev) = 2
    /\ \E d \in FilterValues : ~dimensionAccepts(dimFilter[Called], d)

\* C29: after every filter(x) call with an argument exactly one of the two
\* affordance hooks has been called, turnOnControls if the resulting
\* filter set is non-empty and turnOffControls if it is empty, so that
\* after any sequence of filter operations the controls are on exactly
\* when hasFilter() is true.
C29_ControlsFollowFilters ==
    lastCall.op \in FilterOps =>
        controls[Called] = IF hasAnyFilter(filters[Called]) THEN "on" ELSE "off"

\* C29 amended: turnOnControls is called if the root of the chart is not
\* null and the resulting filter set is non-empty, turnOffControls
\* otherwise.
C29_ControlsFollowFiltersAndRoot ==
    lastCall.op \in FilterOps =>
        controls[Called] =
            IF root[Called] # "null" /\ hasAnyFilter(filters[Called]) THEN "on" ELSE "off"

\* A filter was added to a chart whose root was never set, and the
\* controls were turned on.
C29_Witness ==
    /\ lastCall.op = "filter"
    /\ root[Called] = "undefined"
    /\ Len(filters[Called]) = 1
    /\ controls[Called] = "on"

\* The x the claim's rule keeps under the scale bound to the chart.
InDomain(x) ==
    \/ xScale.kind = "none"
    \/ xScale.kind = "ordinal"
    \/ xScale.elastic
    \/ /\ xScale.domain[1] <= x
       /\ x <= xScale.domain[Len(xScale.domain)]

\* The indices of l.all that domainValues holds.
KeptIndices(l) == {l.keep[j] : j \in 1..Len(l.keep)}

\* A data() call leaves in the domainValues of every layer it prepared
\* exactly the points the rule keeps.
C30_KeepsByDomain ==
    lastCall'.op = "data" =>
        \A i \in 1..Len(stack') :
            visibility(stack'[i]) =>
                \A k \in 1..Len(stack'[i].all) :
                    k \in KeptIndices(stack'[i]) <=> InDomain(stack'[i].all[k].x)

\* domainValues is a sub-sequence of the layer's points, which are one
\* per record of the group and in the records' order.
C30_SubSequence ==
    \A i \in 1..Len(stack) :
        stack[i].prepared =>
            /\ Len(stack[i].all) = Len(groupAll(stack[i].group))
            /\ \A k \in 1..Len(stack[i].all) :
                   stack[i].all[k].x = groupAll(stack[i].group)[k].key
            /\ \A j \in 1..Len(stack[i].keep) :
                   /\ stack[i].keep[j] \in 1..Len(stack[i].all)
                   /\ j > 1 => stack[i].keep[j - 1] < stack[i].keep[j]

\* C30: the domain filter keeps every point when no x scale is bound,
\* when the scale is ordinal or when elasticX is on, and otherwise
\* exactly the points with domain[0] <= x <= domain[last]; domainValues
\* is always an order-preserving sub-sequence of the layer's records.
C30_DomainFilter == []C30_SubSequence /\ [][C30_KeepsByDomain]_vars

\* data() under a linear scale without elasticX kept the one point at
\* both ends of the domain and dropped the other.
C30_Witness ==
    /\ lastCall.op = "data"
    /\ xScale.kind = "linear"
    /\ ~xScale.elastic
    /\ xScale.domain = LinearDomain
    /\ Len(stack) >= 1
    /\ stack[1].prepared
    /\ visibility(stack[1])
    /\ Len(stack[1].all) = 2
    /\ stack[1].keep = << 1 >>

\* data(), or the data pull of yAxisMax(), has just returned its layers.
PulledLayers == lastCall.op \in {"data", "yAxisMax"} /\ dataResult.pulled /\ ~dataResult.threw

\* The layers of the stack list the pull returned.
ReturnedLayers == {dataResult.layers[p] : p \in 1..Len(dataResult.layers)}

\* The indices of l.all that values holds.
ValueIndices(l) == {ValueIndex(l, j) : j \in 1..NumValues(l)}

\* values is one point per record when evadeDomainFilter is set and
\* domainValues otherwise.
C31_Values ==
    PulledLayers =>
        \A i \in ReturnedLayers :
            /\ NumValues(stack[i]) =
                   (IF evadeDomainFilter THEN Len(groupAll(stack[i].group))
                    ELSE Len(stack[i].keep))
            /\ \A j \in 1..NumValues(stack[i]) :
                   ValueIndex(stack[i], j) =
                       (IF evadeDomainFilter THEN j ELSE stack[i].keep[j])

\* Every point of domainValues is in values and has the y0 and y1 the
\* stacking wrote.
C31_DomainValuesStacked ==
    PulledLayers =>
        \A i \in ReturnedLayers :
            \A k \in KeptIndices(stack[i]) :
                k \in ValueIndices(stack[i]) /\ stack[i].all[k].stacked

\* The upper y extent is the largest upper bound of the points of
\* domainValues.
C31_ExtentOfDomainValues ==
    Measured("yAxisMax") =>
        /\ \E pt \in VisiblePoints :
               axisResult.value = upperOf(pt) + axisResult.padding
        /\ \A pt \in VisiblePoints :
               pt.stacked => axisResult.value >= upperOf(pt) + axisResult.padding

\* C31: after a data pull, for every visible layer, values holds one point
\* per record of group.all() if evadeDomainFilter is set and is
\* domainValues otherwise; every point of domainValues is in values and
\* carries the y0 and y1 written by stacking; the axis extents are
\* computed from domainValues only.
C31_EvadeDomainFilter ==
    C31_Values /\ C31_DomainValuesStacked /\ C31_ExtentOfDomainValues

\* The layers that were visible at the data pull, and the keys of the
\* points of values of layer l, in order.
VisibleLayers == {i \in 1..Len(stack) : visibility(stack[i])}

KeySequence(l) == [j \in 1..NumValues(l) |-> ValueAt(l, j).x]

SharedKeys == \A i, k \in VisibleLayers : KeySequence(stack[i]) = KeySequence(stack[k])

\* C34: when the visible layers do not share one key sequence, data()
\* surfaces an error; the layers it returns have y0 and y1 on every point,
\* computed from the values of the other layers at the same key.
C34_DataShapeError ==
    (lastCall.op = "data" /\ dataResult.pulled) =>
        /\ ~SharedKeys => dataResult.threw
        /\ ~dataResult.threw =>
               \A i \in ReturnedLayers :
                   \A j \in 1..NumValues(stack[i]) :
                       /\ ValueAt(stack[i], j).stacked
                       /\ \A k \in ReturnedLayers :
                              /\ j <= NumValues(stack[k])
                              /\ ValueAt(stack[k], j).x = ValueAt(stack[i], j).x

\* A title(s, f) step leaves title() and title(t) of every other stack
\* name t as they were.
TitleFrame ==
    /\ title' = title
    /\ \A t \in TitleNames \ {lastCall'.name} : titleOf(t)' = titleOf(t)

\* C32 as stated: title(s, f) with a stack name s and a function f changes
\* the title for layer s only; title() and title(t) for every other stack
\* name t return what they returned before the call.
C32_TitleOnlyOfStack == [][lastCall'.op = "title" => TitleFrame]_vars

\* A title(s, f) step with s the name of the chart's group sets the
\* chart-wide title function: title() returns f, and so does title(t) for
\* every other stack that has no title function of its own.
TitleOfGroupName ==
    /\ title' = lastCall'.fn
    /\ \A t \in TitleNames \ {lastCall'.name} :
           titleOf(t)' = (IF titles[t] # NoTitle THEN titles[t] ELSE lastCall'.fn)

\* C32: title(s, f) with a stack name s that is not the name of the
\* chart's group changes the title for layer s only, title() and title(t)
\* for every other stack name t returning what they returned before; with
\* s the name of the chart's group it sets the chart-wide title function.
C32_TitleOnlyOfStackButGroup ==
    [][lastCall'.op = "title" =>
           IF lastCall'.name = groupName THEN TitleOfGroupName ELSE TitleFrame]_vars

\* title(s, f) was called for a stack other than the group's while another
\* stack has a title function of its own, different from f and from the
\* chart-wide one.
C32_Witness ==
    /\ lastCall.op = "title"
    /\ lastCall.name # groupName
    /\ titles[lastCall.name] = lastCall.fn
    /\ title # lastCall.fn
    /\ \E t \in TitleNames \ {lastCall.name} :
           titles[t] \notin {NoTitle, lastCall.fn, title}

\* The points of layer l are one per record of its group as it is now,
\* with the layer's hidden flag, and domainValues and values are taken
\* from them under the x scale and the flag as they are now.
FreshValues(l) ==
    /\ Len(l.all) = Len(groupAll(l.group))
    /\ \A k \in 1..Len(l.all) :
           /\ l.all[k].x = keyAccessor(groupAll(l.group)[k])
           /\ l.all[k].y = valueAccessor(groupAll(l.group)[k])
           /\ l.all[k].hidden = l.hidden
           /\ k \in KeptIndices(l) <=> InDomain(l.all[k].x)
    /\ l.evaded = evadeDomainFilter

\* A point of layer i that has y0 and y1 got them from this pull: it is a
\* point of values of a returned layer, starts from the y1 of the layer
\* returned before it, and is as high as a value of this pull.
FreshStacking(i) ==
    \A k \in 1..Len(stack[i].all) :
        stack[i].all[k].stacked =>
            /\ ~dataResult.threw
            /\ \E p \in 1..Len(dataResult.layers), j \in 1..NumValues(stack[i]) :
                   /\ dataResult.layers[p] = i
                   /\ ValueIndex(stack[i], j) = k
                   /\ stack[i].all[k].y0 =
                          (IF p = 1 THEN 0
                           ELSE ValueAt(stack[dataResult.layers[p - 1]], j).y1)
                   /\ \E q \in ReturnedLayers :
                          stack[i].all[k].y1 =
                              stack[i].all[k].y0 + ValueAt(stack[q], j).y

\* data() has just been called.
DataCalled == lastCall.op = "data" /\ dataResult.pulled

\* C33 as stated: after every data() call the derived fields of every
\* layer of the stack list reflect the group records and the hidden flags
\* current at that call; no layer keeps derived fields of an earlier pull.
C33_DerivedFieldsFresh ==
    DataCalled =>
        \A i \in 1..Len(stack) :
            stack[i].prepared => FreshValues(stack[i]) /\ FreshStacking(i)

\* C33: after every data() call the derived fields of every visible layer
\* reflect the group records and the hidden flags current at that call; a
\* hidden layer is not touched.
C33_VisibleDerivedFieldsFresh ==
    /\ [](DataCalled =>
            \A i \in VisibleLayers :
                stack[i].prepared /\ FreshValues(stack[i]) /\ FreshStacking(i))
    /\ [][lastCall'.op = "data" =>
              \A i \in 1..Len(stack) :
                  ~visibility(stack[i]) => stack'[i] = stack[i]]_vars

\* data() was called after the groups changed: the visible layer has the
\* values of now, the hidden one those of the pull before the change.
C33_Witness ==
    /\ DataCalled
    /\ groupValues = 1
    /\ \E i \in VisibleLayers :
           /\ stack[i].all[1].stacked
           /\ stack[i].all[1].y = groupRecords(stack[i].group)[1].value + 1
    /\ \E i \in 1..Len(stack) :
           /\ ~visibility(stack[i])
           /\ stack[i].prepared
           /\ stack[i].all[1].y = groupRecords(stack[i].group)[1].value

\* The positions in the events of the last call at which redraw() of
\* chart d was entered.
RedrawsOf(d) == {k \in 1..Len(log) : log[k].chart = d /\ log[k].ev = "preRedraw"}

\* The charts registered in the group of the chart that was clicked.
ClickedGroup == {registry[chartGroup[Called]][k] : k \in 1..Len(registry[chartGroup[Called]])}

\* The click toggled the key: a stored filter equal to it was removed, or
\* the key was added at the end.
ClickToggled ==
    IF hasFilter(prev, lastCall.arg.v)
    THEN Len(filters[Called]) = Len(prev) - 1 /\ ~hasFilter(filters[Called], lastCall.arg.v)
    ELSE filters[Called] = Append(prev, lastCall.arg.v)

\* C35: onClick(d) toggles the filter keyAccessor(d) on the chart and then
\* redraws the chart's group: the mutation of the filter set and its push
\* to the dimension are complete before any chart of the group is
\* redrawn, and every chart of the group is redrawn after each click.
C35_ClickFiltersThenRedraws ==
    lastCall.op = "onClick" =>
        /\ ClickToggled
        /\ dimension[Called] =>
               dimFilter[Called] = filters[Called] /\ handled = << filters[Called] >>
        /\ Len(log) >= 1
        /\ log[1] = Filtered(Called)
        /\ \A k \in 2..Len(log) : log[k] # Filtered(Called)
        /\ \A d \in ChartIds :
               Cardinality(RedrawsOf(d)) = (IF d \in ClickedGroup THEN 1 ELSE 0)

\* A click removed the filter of a chart with a dimension and two charts
\* of its group were redrawn, the first one failing.
C35_Witness ==
    /\ lastCall.op = "onClick"
    /\ Len(prev) = 1
    /\ filters[Called] = <<>>
    /\ dimension[Called]
    /\ Cardinality(ClickedGroup) = 2
    /\ \A d \in ClickedGroup : RedrawsOf(d) # {}
    /\ \E k \in 1..Len(log) : log[k].ev = "error"

\* The last call was a filter mutation of chart Called.
Mutated == lastCall.op \in {"filter", "filterAll", "replaceFilter"}

\* C36: in every filter mutation (add, remove, reset, bulk toggle) the
\* 'filtered' listener is invoked only after the filter handler has been
\* applied to the dimension and the filter set has taken its new value: what
\* the listener reads from filters() and from the dimension is the state
\* the call leaves.
C36_ListenerAfterHandler ==
    Mutated =>
        /\ Len(observed) = Len(fired)
        /\ \A k \in 1..Len(observed) :
               /\ observed[k].filters = filters[Called]
               /\ observed[k].dimFilter = dimFilter[Called]
               /\ observed[k].handled = Len(handled)
               /\ dimension[Called] => observed[k].handled >= 1

\* The listener was called in an add on a chart with a dimension and a
\* handler that replaces the filter list: it read the list the handler
\* returned.
C36_Witness ==
    /\ lastCall.op = "filter"
    /\ dimension[Called]
    /\ Len(prev) = 1
    /\ Len(fired) = 1
    /\ Len(handled) = 1
    /\ handled[1] # filters[Called]
    /\ observed[1].filters = filters[Called]
    /\ observed[1].dimFilter = filters[Called]

====
